---- MODULE Spec2Model ----
(***************************************************************************)
(* Rules engine of Togyz Kumalak (src/src/game/togyzkumalak.py): the       *)
(* immutable game state, legal moves, move application (sowing, even       *)
(* capture, tuzdyk creation), terminal detection and final scoring.        *)
(***************************************************************************)
EXTENDS Integers, Sequences, FiniteSets, TLC

\* ------------------------------------------------------------------ bounds
\* Number of apply_move calls followed after the position a run starts from.
MaxPlies == 3
\* Same, for the runs that pass arbitrary integers as pit_index.
MaxCallPlies == 2
\* Those runs pass every integer from -MaxArg to MaxArg as pit_index.
MaxArg == 10

\* --------------------------------------------------------------- constants
WHITE == 0
BLACK == 1
\* Python's None in an Optional[int] slot (tuzdyk index, tuzdyk owner).
None == -1
NumPits == 9
WinScore == 82
TotalSeeds == 162

Players == {WHITE, BLACK}
PitIdx == 0 .. (NumPits - 1)

opponent_of(player) == IF player = WHITE THEN BLACK ELSE WHITE

\* TogyzKumalakState.initial()
initial ==
  [ pits           |-> [p \in Players |-> [i \in PitIdx |-> 9]],
    kazans         |-> [p \in Players |-> 0],
    tuzdyk_indices |-> [p \in Players |-> None],
    player_to_move |-> WHITE,
    move_number    |-> 1 ]

\* ------------------------------------------------- Python list subscripting
\* lst[i] on a list of length 9 raises IndexError outside -9..8 and reads
\* lst[i + 9] for a negative i.
InRange(i) == i >= -NumPits /\ i <= NumPits - 1
PyIdx(i) == IF i < 0 THEN i + NumPits ELSE i

\* ------------------------------------------------------------ query methods
RowSum(row) == row[0] + row[1] + row[2] + row[3] + row[4] + row[5] + row[6] + row[7] + row[8]

legal_moves(s) == {i \in PitIdx : s.pits[s.player_to_move][i] > 0}

has_legal_move(s) == \E i \in PitIdx : s.pits[s.player_to_move][i] > 0

\* is_terminal that looks at the mover's kazan only.
is_terminal_MoverKazan(s) ==
  IF s.kazans[s.player_to_move] >= WinScore THEN TRUE
  ELSE IF ~has_legal_move(s) THEN TRUE
  ELSE FALSE

is_terminal(s) ==
  IF s.kazans[WHITE] >= WinScore \/ s.kazans[BLACK] >= WinScore THEN TRUE
  ELSE IF ~has_legal_move(s) THEN TRUE
  ELSE FALSE

\* final_scores that credits each row to the other side at atsyrau.
final_scores_Crossed(s) ==
  LET white_kazan == s.kazans[WHITE]
      black_kazan == s.kazans[BLACK]
  IN IF s.kazans[WHITE] >= WinScore \/ s.kazans[BLACK] >= WinScore
       THEN [p \in Players |-> IF p = WHITE THEN white_kazan ELSE black_kazan]
     ELSE IF ~has_legal_move(s)
       THEN LET mover == s.player_to_move
                opp == opponent_of(mover)
                remaining_opp == RowSum(s.pits[opp])
                remaining_mover == RowSum(s.pits[mover])
            IN IF opp = BLACK
                 THEN [p \in Players |-> IF p = WHITE THEN white_kazan + remaining_opp
                                                     ELSE black_kazan + remaining_mover]
                 ELSE [p \in Players |-> IF p = WHITE THEN white_kazan + remaining_mover
                                                     ELSE black_kazan + remaining_opp]
     ELSE [p \in Players |-> IF p = WHITE THEN white_kazan ELSE black_kazan]

\* final_scores returns (white_score, black_score); here a function on Players.
final_scores(s) ==
  LET white_kazan == s.kazans[WHITE]
      black_kazan == s.kazans[BLACK]
  IN IF s.kazans[WHITE] >= WinScore \/ s.kazans[BLACK] >= WinScore
       THEN [p \in Players |-> IF p = WHITE THEN white_kazan ELSE black_kazan]
     ELSE IF ~has_legal_move(s)
       THEN LET mover == s.player_to_move
                opp == opponent_of(mover)
                remaining_opp == RowSum(s.pits[opp])
                remaining_mover == RowSum(s.pits[mover])
            IN IF opp = WHITE
                 THEN [p \in Players |-> IF p = WHITE THEN white_kazan + remaining_opp
                                                     ELSE black_kazan + remaining_mover]
                 ELSE [p \in Players |-> IF p = WHITE THEN white_kazan + remaining_mover
                                                     ELSE black_kazan + remaining_opp]
     ELSE [p \in Players |-> IF p = WHITE THEN white_kazan ELSE black_kazan]

\* outcome that gives equal scores to White.
outcome_TieToWhite(s) ==
  IF ~is_terminal(s) THEN None
  ELSE LET white_score == final_scores(s)[WHITE]
           black_score == final_scores(s)[BLACK]
       IN IF white_score >= black_score THEN WHITE
          ELSE IF black_score > white_score THEN BLACK
          ELSE None

\* outcome returns WHITE, BLACK, or None (ongoing, or a draw).
outcome(s) ==
  IF ~is_terminal(s) THEN None
  ELSE LET white_score == final_scores(s)[WHITE]
           black_score == final_scores(s)[BLACK]
       IN IF white_score > black_score THEN WHITE
          ELSE IF black_score > white_score THEN BLACK
          ELSE None

\* --------------------------------------------------------- move application
\* tuzdyk_owner_at that overlooks Black's tuzdyk.
tuzdyk_owner_at_WhiteOnly(tuzdyk_indices, side_idx, local_index) ==
  IF tuzdyk_indices[WHITE] # None /\ side_idx = BLACK /\ tuzdyk_indices[WHITE] = local_index
    THEN WHITE
  ELSE None

\* Owner of the tuzdyk at a board square, or None.
tuzdyk_owner_at(tuzdyk_indices, side_idx, local_index) ==
  IF tuzdyk_indices[WHITE] # None /\ side_idx = BLACK /\ tuzdyk_indices[WHITE] = local_index
    THEN WHITE
  ELSE IF tuzdyk_indices[BLACK] # None /\ side_idx = WHITE /\ tuzdyk_indices[BLACK] = local_index
    THEN BLACK
  ELSE None

\* next_pos that stays on the same row after index 8.
next_pos_SameRow(side_idx, local_index) ==
  IF local_index = 8 THEN <<side_idx, 0>>
  ELSE <<side_idx, local_index + 1>>

\* Step to the next (side, index) around the ring of 18 pits.
next_pos(side_idx, local_index) ==
  IF local_index = 8 THEN <<opponent_of(side_idx), 0>>
  ELSE <<side_idx, local_index + 1>>

\* The while loop of apply_move: b carries pits, kazans, last_side, last_idx.
\* A Python statement takes effect when it runs: b = b (always true) makes
\* TLC evaluate the board at every iteration, not at the end of the loop.
RECURSIVE SowLoop(_, _, _, _, _)
SowLoop(tuzdyk_indices, b, stones_to_sow, cur_side, cur_idx) ==
  IF b = b /\ ~(stones_to_sow > 0) THEN b
  ELSE LET owner == tuzdyk_owner_at(tuzdyk_indices, cur_side, cur_idx)
           b1 == IF owner # None
                   THEN [b EXCEPT !.kazans[owner] = @ + 1]
                   ELSE [b EXCEPT !.pits[cur_side][PyIdx(cur_idx)] = @ + 1,
                                  !.last_side = cur_side,
                                  !.last_idx = cur_idx]
           nx == IF stones_to_sow - 1 > 0 THEN next_pos(cur_side, cur_idx)
                 ELSE <<cur_side, cur_idx>>
       IN SowLoop(tuzdyk_indices, b1, stones_to_sow - 1, nx[1], nx[2])

\* Sow that returns a stone to the origin and still sows all stones in hand.
Sow_SowsAll(s, pit_index) ==
  LET mover == s.player_to_move
      stones_in_hand == s.pits[mover][PyIdx(pit_index)]
      emptied == [s.pits EXCEPT ![mover][PyIdx(pit_index)] = 0]
      pits0 == IF stones_in_hand > 1
                 THEN [emptied EXCEPT ![mover][PyIdx(pit_index)] = @ + 1]
                 ELSE emptied
      stones_to_sow == stones_in_hand
      cur == next_pos(mover, pit_index)
  IN SowLoop(s.tuzdyk_indices,
             [pits |-> pits0, kazans |-> s.kazans, last_side |-> cur[1], last_idx |-> cur[2]],
             stones_to_sow, cur[1], cur[2])

\* apply_move up to the end of the sowing loop, for a non-empty in-range pit.
Sow(s, pit_index) ==
  LET mover == s.player_to_move
      stones_in_hand == s.pits[mover][PyIdx(pit_index)]
      emptied == [s.pits EXCEPT ![mover][PyIdx(pit_index)] = 0]
      pits0 == IF stones_in_hand > 1
                 THEN [emptied EXCEPT ![mover][PyIdx(pit_index)] = @ + 1]
                 ELSE emptied
      stones_to_sow == IF stones_in_hand > 1 THEN stones_in_hand - 1 ELSE stones_in_hand
      cur == next_pos(mover, pit_index)
  IN SowLoop(s.tuzdyk_indices,
             [pits |-> pits0, kazans |-> s.kazans, last_side |-> cur[1], last_idx |-> cur[2]],
             stones_to_sow, cur[1], cur[2])

\* _can_create_tuzdyk without the check that the mover has no tuzdyk yet.
_can_create_tuzdyk_Second(s, mover, opp_pit_index) ==
  LET opp == opponent_of(mover)
  IN IF opp_pit_index = 8 THEN FALSE
     ELSE IF s.tuzdyk_indices[opp] # None /\ s.tuzdyk_indices[opp] = opp_pit_index THEN FALSE
     ELSE TRUE

\* _can_create_tuzdyk without the ninth-pit check.
_can_create_tuzdyk_Ninth(s, mover, opp_pit_index) ==
  LET opp == opponent_of(mover)
  IN IF s.tuzdyk_indices[mover] # None THEN FALSE
     ELSE IF s.tuzdyk_indices[opp] # None /\ s.tuzdyk_indices[opp] = opp_pit_index THEN FALSE
     ELSE TRUE

\* _can_create_tuzdyk without the mirrored-index check.
_can_create_tuzdyk_Mirrored(s, mover, opp_pit_index) ==
  LET opp == opponent_of(mover)
  IN IF s.tuzdyk_indices[mover] # None THEN FALSE
     ELSE IF opp_pit_index = 8 THEN FALSE
     ELSE TRUE

\* _can_create_tuzdyk that lets White alone make a tuzdyk.
_can_create_tuzdyk_WhiteOnly(s, mover, opp_pit_index) ==
  LET opp == opponent_of(mover)
  IN IF mover # WHITE THEN FALSE
     ELSE IF s.tuzdyk_indices[mover] # None THEN FALSE
     ELSE IF opp_pit_index = 8 THEN FALSE
     ELSE IF s.tuzdyk_indices[opp] # None /\ s.tuzdyk_indices[opp] = opp_pit_index THEN FALSE
     ELSE TRUE
\* _can_create_tuzdyk that does not ask whether the mover has a tuzdyk.
_can_create_tuzdyk_Again(s, mover, opp_pit_index) ==
  LET opp == opponent_of(mover)
  IN IF opp_pit_index = 8 THEN FALSE
     ELSE IF s.tuzdyk_indices[opp] # None /\ s.tuzdyk_indices[opp] = opp_pit_index THEN FALSE
     ELSE TRUE
_can_create_tuzdyk(s, mover, opp_pit_index) ==
  LET opp == opponent_of(mover)
  IN IF s.tuzdyk_indices[mover] # None THEN FALSE
     ELSE IF opp_pit_index = 8 THEN FALSE
     ELSE IF s.tuzdyk_indices[opp] # None /\ s.tuzdyk_indices[opp] = opp_pit_index THEN FALSE
     ELSE TRUE

\* Capture that takes odd counts instead of even ones.
Capture_Odd(s, b) ==
  LET mover == s.player_to_move
      opp == opponent_of(mover)
      li == PyIdx(b.last_idx)
      stones_there == b.pits[opp][li]
      unchanged == [pits |-> b.pits, kazans |-> b.kazans, tuzdyk_indices |-> s.tuzdyk_indices]
  IN IF b.last_side = opp
       THEN IF tuzdyk_owner_at(s.tuzdyk_indices, b.last_side, b.last_idx) = None
              THEN IF stones_there = 3 /\ _can_create_tuzdyk(s, mover, b.last_idx)
                     THEN [pits |-> [b.pits EXCEPT ![opp][li] = 0],
                           kazans |-> [b.kazans EXCEPT ![mover] = @ + 3],
                           tuzdyk_indices |-> [s.tuzdyk_indices EXCEPT ![mover] = b.last_idx]]
                   ELSE IF stones_there % 2 = 1 /\ stones_there > 0
                     THEN [pits |-> [b.pits EXCEPT ![opp][li] = 0],
                           kazans |-> [b.kazans EXCEPT ![mover] = @ + stones_there],
                           tuzdyk_indices |-> s.tuzdyk_indices]
                   ELSE unchanged
            ELSE unchanged
     ELSE unchanged

\* Capture that leaves the three stones in the pit it turns into a tuzdyk.
Capture_TuzdykKeepsStones(s, b) ==
  LET mover == s.player_to_move
      opp == opponent_of(mover)
      li == PyIdx(b.last_idx)
      stones_there == b.pits[opp][li]
      unchanged == [pits |-> b.pits, kazans |-> b.kazans, tuzdyk_indices |-> s.tuzdyk_indices]
  IN IF b.last_side = opp
       THEN IF tuzdyk_owner_at(s.tuzdyk_indices, b.last_side, b.last_idx) = None
              THEN IF stones_there = 3 /\ _can_create_tuzdyk(s, mover, b.last_idx)
                     THEN [pits |-> b.pits,
                           kazans |-> b.kazans,
                           tuzdyk_indices |-> [s.tuzdyk_indices EXCEPT ![mover] = b.last_idx]]
                   ELSE IF stones_there % 2 = 0 /\ stones_there > 0
                     THEN [pits |-> [b.pits EXCEPT ![opp][li] = 0],
                           kazans |-> [b.kazans EXCEPT ![mover] = @ + stones_there],
                           tuzdyk_indices |-> s.tuzdyk_indices]
                   ELSE unchanged
            ELSE unchanged
     ELSE unchanged

\* Capture that examines the last cell on whichever row it lies.
Capture_AnyRow(s, b) ==
  LET mover == s.player_to_move
      opp == opponent_of(mover)
      li == PyIdx(b.last_idx)
      stones_there == b.pits[b.last_side][li]
      unchanged == [pits |-> b.pits, kazans |-> b.kazans, tuzdyk_indices |-> s.tuzdyk_indices]
  IN IF tuzdyk_owner_at(s.tuzdyk_indices, b.last_side, b.last_idx) = None
       THEN IF b.last_side = opp /\ stones_there = 3 /\ _can_create_tuzdyk(s, mover, b.last_idx)
              THEN [pits |-> [b.pits EXCEPT ![opp][li] = 0],
                    kazans |-> [b.kazans EXCEPT ![mover] = @ + 3],
                    tuzdyk_indices |-> [s.tuzdyk_indices EXCEPT ![mover] = b.last_idx]]
            ELSE IF stones_there % 2 = 0 /\ stones_there > 0
              THEN [pits |-> [b.pits EXCEPT ![b.last_side][li] = 0],
                    kazans |-> [b.kazans EXCEPT ![mover] = @ + stones_there],
                    tuzdyk_indices |-> s.tuzdyk_indices]
            ELSE unchanged
     ELSE unchanged

\* apply_move after the sowing loop: capture or tuzdyk creation at the last cell.
Capture(s, b) ==
  LET mover == s.player_to_move
      opp == opponent_of(mover)
      li == PyIdx(b.last_idx)
      stones_there == b.pits[opp][li]
      unchanged == [pits |-> b.pits, kazans |-> b.kazans, tuzdyk_indices |-> s.tuzdyk_indices]
  IN IF b.last_side = opp
       THEN IF tuzdyk_owner_at(s.tuzdyk_indices, b.last_side, b.last_idx) = None
              THEN IF stones_there = 3 /\ _can_create_tuzdyk(s, mover, b.last_idx)
                     THEN [pits |-> [b.pits EXCEPT ![opp][li] = 0],
                           kazans |-> [b.kazans EXCEPT ![mover] = @ + 3],
                           tuzdyk_indices |-> [s.tuzdyk_indices EXCEPT ![mover] = b.last_idx]]
                   ELSE IF stones_there % 2 = 0 /\ stones_there > 0
                     THEN [pits |-> [b.pits EXCEPT ![opp][li] = 0],
                           kazans |-> [b.kazans EXCEPT ![mover] = @ + stones_there],
                           tuzdyk_indices |-> s.tuzdyk_indices]
                   ELSE unchanged
            ELSE unchanged
     ELSE unchanged

\* apply_move(self, pit_index): status "ok" with the successor, or the
\* exception raised ("ValueError" is the illegal-move error, "IndexError"
\* the list subscript error) with no successor.
apply_move(s, pit_index) ==
  LET mover == s.player_to_move
      opp == opponent_of(mover)
  IN IF ~InRange(pit_index) THEN [status |-> "IndexError", state |-> s]
     ELSE IF s.pits[mover][PyIdx(pit_index)] <= 0 THEN [status |-> "ValueError", state |-> s]
     ELSE LET c == Capture(s, Sow(s, pit_index))
          IN [status |-> "ok",
              state  |-> [ pits           |-> c.pits,
                           kazans         |-> c.kazans,
                           tuzdyk_indices |-> c.tuzdyk_indices,
                           player_to_move |-> opp,
                           move_number    |-> s.move_number + 1 ]]

\* ------------------------------------------------------ symmetry and hashing
\* mirror_state that leaves the tuzdyk indices with their owners.
mirror_state_KeepsTuzdyk(s) ==
  [pits |-> [p \in Players |-> IF p = WHITE THEN s.pits[BLACK] ELSE s.pits[WHITE]],
   kazans |-> [p \in Players |-> IF p = WHITE THEN s.kazans[BLACK] ELSE s.kazans[WHITE]],
   tuzdyk_indices |-> s.tuzdyk_indices,
   player_to_move |-> opponent_of(s.player_to_move),
   move_number |-> s.move_number]

mirror_state(s) ==
  [pits |-> [p \in Players |-> IF p = WHITE THEN s.pits[BLACK] ELSE s.pits[WHITE]],
   kazans |-> [p \in Players |-> IF p = WHITE THEN s.kazans[BLACK] ELSE s.kazans[WHITE]],
   tuzdyk_indices |-> [p \in Players |-> IF p = WHITE THEN s.tuzdyk_indices[BLACK]
                                                    ELSE s.tuzdyk_indices[WHITE]],
   player_to_move |-> opponent_of(s.player_to_move),
   move_number |-> s.move_number]

\* canonicalize that returns every state as it is.
canonicalize_AsIs(s) == IF s.player_to_move = WHITE THEN s ELSE s

canonicalize(s) == IF s.player_to_move = WHITE THEN s ELSE mirror_state(s)

\* state_key that also takes move_number in.
state_key_WithMoveNumber(s) ==
  <<s.pits[WHITE], s.pits[BLACK], s.kazans, s.tuzdyk_indices[WHITE],
    s.tuzdyk_indices[BLACK], s.player_to_move, s.move_number>>

state_key(s) ==
  <<s.pits[WHITE], s.pits[BLACK], s.kazans, s.tuzdyk_indices[WHITE],
    s.tuzdyk_indices[BLACK], s.player_to_move>>

\* ------------------------------------------------------------ serialization
\* A text is a sequence of one-character strings.  The texts of the model
\* are made of digits, "-", "+", ",", "|" and letters.
DigitChars == <<"0", "1", "2", "3", "4", "5", "6", "7", "8", "9">>
IsDigit(c) == \E i \in 1 .. 10 : DigitChars[i] = c
DigitVal(c) == (CHOOSE i \in 1 .. 10 : DigitChars[i] = c) - 1

\* str(n) for an int n.
RECURSIVE StrNat(_)
StrNat(n) ==
  IF n < 10 THEN <<DigitChars[n + 1]>>
  ELSE StrNat(n \div 10) \o <<DigitChars[(n % 10) + 1]>>
py_str(n) == IF n < 0 THEN <<"-">> \o StrNat(0 - n) ELSE StrNat(n)

\* int(x) for a text x: an optional sign and at least one digit, or ValueError.
RECURSIVE NatVal(_)
NatVal(x) ==
  IF x = <<>> THEN 0
  ELSE NatVal(SubSeq(x, 1, Len(x) - 1)) * 10 + DigitVal(x[Len(x)])
py_int(x) ==
  LET signed == Len(x) > 0 /\ x[1] \in {"-", "+"}
      body == IF signed THEN Tail(x) ELSE x
      ok == Len(body) > 0 /\ \A i \in 1 .. Len(body) : IsDigit(body[i])
  IN [ok |-> ok,
      val |-> IF ~ok THEN 0
              ELSE IF signed /\ x[1] = "-" THEN 0 - NatVal(body) ELSE NatVal(body)]

\* x.split(sep): the pieces between the occurrences of sep, empty ones kept.
Split(x, sep) ==
  LET pos == {i \in 1 .. Len(x) : x[i] = sep}
      n == Cardinality(pos)
      Cut(k) == IF k = 0 THEN 0
                ELSE IF k = n + 1 THEN Len(x) + 1
                ELSE CHOOSE i \in pos : Cardinality({j \in pos : j < i}) = k - 1
  IN [k \in 1 .. n + 1 |-> SubSeq(x, Cut(k - 1) + 1, Cut(k) - 1)]

\* sep.join(parts)
RECURSIVE Join(_, _)
Join(sep, parts) ==
  IF parts = <<>> THEN <<>>
  ELSE IF Len(parts) = 1 THEN parts[1]
  ELSE parts[1] \o <<sep>> \o Join(sep, Tail(parts))

\* A Python list as the model keeps it (a function on 0 .. n-1), from and to
\* a sequence.
ListOf(seq) == [i \in 0 .. Len(seq) - 1 |-> seq[i + 1]]
SeqOf(list) == [i \in 1 .. Cardinality(DOMAIN list) |-> list[i - 1]]

serialize_fen(s) ==
  LET tuz(x) == IF x = None THEN <<"-">> ELSE py_str(x)
      row(r) == Join("-", [i \in 1 .. Cardinality(DOMAIN r) |-> py_str(r[i - 1])])
      parts == <<IF s.player_to_move = WHITE THEN <<"W">> ELSE <<"B">>,
                 Join(",", <<row(s.pits[WHITE]), row(s.pits[BLACK])>>),
                 py_str(s.kazans[WHITE]) \o <<",">> \o py_str(s.kazans[BLACK]),
                 tuz(s.tuzdyk_indices[WHITE]) \o <<",">> \o tuz(s.tuzdyk_indices[BLACK]),
                 py_str(s.move_number)>>
  IN Join("|", parts)

\* deserialize_fen that reads the mover's letter as "A" for White.
deserialize_fen_LetterA(s) ==
  LET failed == [status |-> "ValueError", state |-> None]
      parts == Split(s, "|")
  IN IF Len(parts) # 5 THEN failed
     ELSE
       LET side == parts[1]
           pits_s == parts[2]
           kaz_s == parts[3]
           tuz_s == parts[4]
           mv_s == parts[5]
           rows == Split(pits_s, ",")
       IN IF Len(rows) # 2 THEN failed
          ELSE
            LET white_pits_s == Split(rows[1], "-")
                black_pits_s == Split(rows[2], "-")
                white_pits == [i \in 1 .. Len(white_pits_s) |-> py_int(white_pits_s[i])]
                black_pits == [i \in 1 .. Len(black_pits_s) |-> py_int(black_pits_s[i])]
                kz == Split(kaz_s, ",")
                tz == Split(tuz_s, ",")
            IN IF \E i \in 1 .. Len(white_pits) : ~white_pits[i].ok THEN failed
               ELSE IF \E i \in 1 .. Len(black_pits) : ~black_pits[i].ok THEN failed
               ELSE IF Len(kz) # 2 THEN failed
               ELSE IF Len(tz) # 2 THEN failed
               ELSE IF tz[1] # <<"-">> /\ ~py_int(tz[1]).ok THEN failed
               ELSE IF tz[2] # <<"-">> /\ ~py_int(tz[2]).ok THEN failed
               ELSE IF ~py_int(kz[1]).ok \/ ~py_int(kz[2]).ok THEN failed
               ELSE IF ~py_int(mv_s).ok THEN failed
               ELSE
                 LET tuz_w_v == IF tz[1] = <<"-">> THEN None ELSE py_int(tz[1]).val
                     tuz_b_v == IF tz[2] = <<"-">> THEN None ELSE py_int(tz[2]).val
                 IN [status |-> "ok",
                     state |->
                       [pits |-> [p \in Players |->
                                    IF p = WHITE
                                      THEN ListOf([i \in 1 .. Len(white_pits) |-> white_pits[i].val])
                                      ELSE ListOf([i \in 1 .. Len(black_pits) |-> black_pits[i].val])],
                        kazans |-> [p \in Players |-> IF p = WHITE THEN py_int(kz[1]).val
                                                                  ELSE py_int(kz[2]).val],
                        tuzdyk_indices |-> [p \in Players |-> IF p = WHITE THEN tuz_w_v
                                                                          ELSE tuz_b_v],
                        player_to_move |-> IF side = <<"A">> THEN WHITE ELSE BLACK,
                        move_number |-> py_int(mv_s).val]]

\* deserialize_fen(s): the state, or ValueError where an unpacking or an
\* int() fails.
deserialize_fen(s) ==
  LET failed == [status |-> "ValueError", state |-> None]
      parts == Split(s, "|")
  IN IF Len(parts) # 5 THEN failed
     ELSE
       LET side == parts[1]
           pits_s == parts[2]
           kaz_s == parts[3]
           tuz_s == parts[4]
           mv_s == parts[5]
           rows == Split(pits_s, ",")
       IN IF Len(rows) # 2 THEN failed
          ELSE
            LET white_pits_s == Split(rows[1], "-")
                black_pits_s == Split(rows[2], "-")
                white_pits == [i \in 1 .. Len(white_pits_s) |-> py_int(white_pits_s[i])]
                black_pits == [i \in 1 .. Len(black_pits_s) |-> py_int(black_pits_s[i])]
                kz == Split(kaz_s, ",")
                tz == Split(tuz_s, ",")
            IN IF \E i \in 1 .. Len(white_pits) : ~white_pits[i].ok THEN failed
               ELSE IF \E i \in 1 .. Len(black_pits) : ~black_pits[i].ok THEN failed
               ELSE IF Len(kz) # 2 THEN failed
               ELSE IF Len(tz) # 2 THEN failed
               ELSE IF tz[1] # <<"-">> /\ ~py_int(tz[1]).ok THEN failed
               ELSE IF tz[2] # <<"-">> /\ ~py_int(tz[2]).ok THEN failed
               ELSE IF ~py_int(kz[1]).ok \/ ~py_int(kz[2]).ok THEN failed
               ELSE IF ~py_int(mv_s).ok THEN failed
               ELSE
                 LET tuz_w_v == IF tz[1] = <<"-">> THEN None ELSE py_int(tz[1]).val
                     tuz_b_v == IF tz[2] = <<"-">> THEN None ELSE py_int(tz[2]).val
                 IN [status |-> "ok",
                     state |->
                       [pits |-> [p \in Players |->
                                    IF p = WHITE
                                      THEN ListOf([i \in 1 .. Len(white_pits) |-> white_pits[i].val])
                                      ELSE ListOf([i \in 1 .. Len(black_pits) |-> black_pits[i].val])],
                        kazans |-> [p \in Players |-> IF p = WHITE THEN py_int(kz[1]).val
                                                                  ELSE py_int(kz[2]).val],
                        tuzdyk_indices |-> [p \in Players |-> IF p = WHITE THEN tuz_w_v
                                                                          ELSE tuz_b_v],
                        player_to_move |-> IF side = <<"W">> THEN WHITE ELSE BLACK,
                        move_number |-> py_int(mv_s).val]]

\* ------------------------------------------------------------ state machine
\* state: the state value the caller holds; prev, act: receiver and argument
\* of the latest apply_move call; res: how that call ended; root: the
\* position the run started from.
VARIABLES state, prev, act, res, root

\* heap: the list objects of the interpreter, by reference; objs: the state
\* objects a caller holds; made: for each of them the object and the action
\* it was made from; hcall: the latest apply_move call on a held object.
VARIABLES heap, objs, made, hcall

\* text: the argument of the latest deserialize_fen call; parsed: how the
\* call ended and the state it returned.
VARIABLES text, parsed

\* One MCTS engine and its caller.  table: self._table; pc: where the
\* caller or the running search call stands; sims: simulations done in the
\* running call; searches: search calls entered; path, cur: the locals path
\* and state of _simulate; evals: the states handed to inference_fn so far;
\* leaf: the state and the value of the latest _evaluate call; entry: what
\* the latest search call found when it was entered; policy: what the latest
\* search call returned, as counts over a common denominator; ekind: the
\* inference function the engine was built with.
VARIABLES table, pc, sims, searches, path, cur, evals, leaf, entry, policy, ekind

gameVars == <<state, prev, act, res, root>>
heapVars == <<heap, objs, made, hcall>>
fenVars == <<text, parsed>>
searchVars == <<table, pc, sims, searches, path, cur, evals, leaf, entry, policy, ekind>>
otherVars == <<heapVars, fenVars, searchVars>>
vars == <<gameVars, otherVars>>

\* No state object is tracked by reference.
HeapIdle ==
  /\ heap = <<>>
  /\ objs = <<>>
  /\ made = <<>>
  /\ hcall = [obj |-> 0, act |-> 0, status |-> "init"]

\* deserialize_fen has not been called.
FenIdle ==
  /\ text = <<>>
  /\ parsed = [status |-> "init", state |-> None]

\* No engine has been built.
SearchIdle ==
  /\ table = <<>>
  /\ pc = "none"
  /\ sims = 0
  /\ searches = 0
  /\ path = <<>>
  /\ cur = initial
  /\ evals = {}
  /\ leaf = [set |-> FALSE, state |-> initial, value |-> 0]
  /\ entry = [nodes |-> 0, visits |-> 0]
  /\ policy = [num |-> [a \in PitIdx |-> 0], den |-> 1]
  /\ ekind = "none"

\* The position reached from s by a line of moves; the line ends at the
\* first call that raises.  s = s (always true) makes TLC evaluate the
\* position the line starts from before the line is played.
RECURSIVE Replay(_, _)
Replay(s, line) ==
  IF s = s /\ line = <<>> THEN s
  ELSE LET r == apply_move(s, Head(line))
       IN IF r.status = "ok" THEN Replay(r.state, Tail(line)) ELSE s

\* Positions reached from initial() by lines of legal moves; every run starts
\* at initial() or at one of them.  They are played-out games cut shortly
\* before three stones gather in a ninth pit (NinthPosition), a tuzdyk is
\* refused as mirrored (MirrorPosition), a pit holds at least 19 stones
\* (WrapPosition), a kazan reaches 82 (ScorePosition), the mover's row runs
\* empty (AtsyrauPosition), the game ends 81-81 (DrawPosition).
NinthPosition == Replay(initial, <<8, 5>>)
MirrorPosition == Replay(initial, <<6, 2, 7, 3>>)
WrapPos1 == Replay(initial, <<7, 4, 1, 7, 6, 0, 1, 3>>)
WrapPosition == Replay(WrapPos1, <<1, 8, 0>>)
ScorePos1 == Replay(initial, <<8, 0, 5, 6, 7, 6, 8, 4>>)
ScorePosition == Replay(ScorePos1, <<1, 6, 2, 7, 3, 8, 4>>)
\* The two long lines are played in stretches of eight moves.
AtsyrauPos1 == Replay(initial, <<4, 8, 0, 6, 1, 7, 4, 4>>)
AtsyrauPos2 == Replay(AtsyrauPos1, <<2, 8, 7, 8, 7, 4, 6, 5>>)
AtsyrauPos3 == Replay(AtsyrauPos2, <<5, 3, 8, 5, 4, 6, 6, 4>>)
AtsyrauPos4 == Replay(AtsyrauPos3, <<3, 6, 6, 6, 5, 1, 8, 8>>)
AtsyrauPos5 == Replay(AtsyrauPos4, <<7, 4, 5, 8, 8, 6, 5, 3>>)
AtsyrauPos6 == Replay(AtsyrauPos5, <<7, 4, 1, 4, 1, 6, 8, 3>>)
AtsyrauPos7 == Replay(AtsyrauPos6, <<3, 4, 8, 6, 7, 5, 7, 8>>)
AtsyrauPosition == Replay(AtsyrauPos7, <<3, 6, 5, 5, 7>>)
DrawPos1 == Replay(initial, <<6, 6, 6, 2, 3, 6, 6, 2>>)
DrawPos2 == Replay(DrawPos1, <<4, 2, 3, 1, 7, 7, 6, 7>>)
DrawPos3 == Replay(DrawPos2, <<5, 6, 7, 3, 1, 3, 7, 6>>)
DrawPos4 == Replay(DrawPos3, <<8, 0, 3, 3, 2, 3, 8, 7>>)
DrawPos5 == Replay(DrawPos4, <<2, 6, 6, 5, 5, 7, 7, 6>>)
DrawPos6 == Replay(DrawPos5, <<2, 8, 8, 4, 0, 8, 4, 8>>)
DrawPos7 == Replay(DrawPos6, <<2, 7, 6, 7, 6, 3, 4, 4>>)
DrawPos8 == Replay(DrawPos7, <<8, 1, 0, 8, 4, 2, 5, 1>>)
DrawPos9 == Replay(DrawPos8, <<2, 7, 7, 5, 6, 8, 5, 7>>)
DrawPos10 == Replay(DrawPos9, <<6, 8, 0, 1, 2, 8, 7, 3>>)
DrawPosition == Replay(DrawPos10, <<7, 4, 1, 3, 8, 5, 8, 1>>)

StartPositions ==
  {initial, NinthPosition, MirrorPosition, WrapPosition, ScorePosition, AtsyrauPosition,
   DrawPosition}

Init ==
  /\ root \in StartPositions
  /\ state = root
  /\ prev = root
  /\ act = 0
  /\ res = "init"
  /\ HeapIdle
  /\ FenIdle
  /\ SearchIdle

\* ns = state.apply_move(pit_index) returns; the caller goes on with ns.
MoveOk(pit_index, plies) ==
  /\ state.move_number - root.move_number < plies
  /\ apply_move(state, pit_index).status = "ok"
  /\ state' = apply_move(state, pit_index).state
  /\ prev' = state
  /\ act' = pit_index
  /\ res' = "ok"
  /\ UNCHANGED <<root, otherVars>>

\* state.apply_move(pit_index) raises; the caller still holds state.
MoveRaises(pit_index) ==
  /\ apply_move(state, pit_index).status # "ok"
  /\ prev' = state
  /\ act' = pit_index
  /\ res' = apply_move(state, pit_index).status
  /\ UNCHANGED <<state, root, otherVars>>

Next ==
  \/ \E pit_index \in PitIdx : MoveOk(pit_index, MaxPlies)
  \/ \E pit_index \in PitIdx : MoveRaises(pit_index)

Spec == Init /\ [][Next]_vars

NextCalls ==
  \/ \E pit_index \in -MaxArg .. MaxArg : MoveOk(pit_index, MaxCallPlies)
  \/ \E pit_index \in -MaxArg .. MaxArg : MoveRaises(pit_index)

SpecCalls == Init /\ [][NextCalls]_vars

\* ------------------------------------------------------ vocabulary of the claims
\* The latest call, seen from outside the sowing loop: mover, opponent, the
\* n stones taken, the k stones sown, and the 18-cell ring (White's indices
\* 0..8 are cells 0..8, Black's are cells 9..17).
Mover == prev.player_to_move
Opp == opponent_of(Mover)
HandN == prev.pits[Mover][act]
SownK == IF HandN > 1 THEN HandN - 1 ELSE HandN
RingCells == 0 .. (2 * NumPits - 1)
Cell(side, i) == NumPits * side + i
CellSide(c) == c \div NumPits
CellIdx(c) == c % NumPits
Origin == Cell(Mover, act)
RingAt(j) == (Origin + j) % (2 * NumPits)
\* Number of stones of the latest move dropped on cell c.
Drops(c) == Cardinality({j \in 1 .. SownK : RingAt(j) = c})
HasTuzdyk(s, o) == s.tuzdyk_indices[o] # None
TuzCell(s, o) == Cell(opponent_of(o), s.tuzdyk_indices[o])
IsTuzCell(s, c) == \E o \in Players : HasTuzdyk(s, o) /\ c = TuzCell(s, o)
PitAt(pits, c) == pits[CellSide(c)][CellIdx(c)]
\* The board right after the sowing of the latest move, before any capture.
AfterSow == Sow(prev, act)
\* The last affected cell: the last cell whose pit count a drop incremented.
AffectedSteps == {j \in 1 .. SownK : ~IsTuzCell(prev, RingAt(j))}
HasLast == AffectedSteps # {}
LastCell == RingAt(CHOOSE j \in AffectedSteps : \A k \in AffectedSteps : k <= j)
LastOnOpp == HasLast /\ CellSide(LastCell) = Opp
LastCount == PitAt(AfterSow.pits, LastCell)
Total(s) == RowSum(s.pits[WHITE]) + RowSum(s.pits[BLACK]) + s.kazans[WHITE] + s.kazans[BLACK]

\* ------------------------------------------------------------------- claims
\* C1: seed conservation.  In every state reached from initial() by legal
\* moves the 18 pits and the two kazans sum to 162 and none is negative.
C1_SeedConservation ==
  /\ Total(state) = TotalSeeds
  /\ \A p \in Players : state.kazans[p] >= 0 /\ \A i \in PitIdx : state.pits[p][i] >= 0

\* A move that sowed across both rows, credited a tuzdyk and captured.
C1_Witness ==
  /\ res = "ok"
  /\ SownK >= NumPits
  /\ \E c \in RingCells : IsTuzCell(prev, c) /\ Drops(c) > 0
  /\ state.kazans[Mover] > AfterSow.kazans[Mover]

\* C2: apply_move fails and yields no successor for every pit_index outside
\* 0..8 and for every pit_index in 0..8 whose pit on the mover's row is empty.
C2_IllegalMoveRejected ==
  (res # "init" /\ (act \notin PitIdx \/ prev.pits[prev.player_to_move][act] = 0))
    => (res \in {"ValueError", "IndexError"} /\ state = prev)

\* C3: sowing.  With n = 1 the origin ends the sowing empty and the stone goes
\* to the next ring cell (index i+1, or the opponent's index 0 after i = 8);
\* with n > 1 one stone is back in the origin and n-1 stones fall one per cell
\* on the consecutive ring cells after the origin.  Cells that are a tuzdyk
\* keep their count (C4); the mover's row of the successor is the sown row.
C3_Sowing ==
  res = "ok" =>
    LET sown == AfterSow
    IN /\ \A c \in RingCells : ~IsTuzCell(prev, c) =>
            PitAt(sown.pits, c) =
              (IF c = Origin THEN (IF HandN > 1 THEN 1 ELSE 0) ELSE PitAt(prev.pits, c))
                + Drops(c)
       /\ HandN = 1 =>
            LET next == IF act = 8 THEN Cell(Opp, 0) ELSE Cell(Mover, act + 1)
            IN /\ sown.pits[Mover][act] = 0
               /\ Drops(next) = 1
               /\ \A c \in RingCells \ {next} : Drops(c) = 0
       /\ \A i \in PitIdx : state.pits[Mover][i] = sown.pits[Mover][i]

\* A single stone played from index 8 onto the opponent's index 0.
C3_Witness ==
  /\ res = "ok"
  /\ HandN = 1
  /\ act = 8
  /\ AfterSow.pits[Opp][0] = prev.pits[Opp][0] + 1

\* C4: every stone dropped on a tuzdyk cell adds one to the kazan of the
\* tuzdyk's owner and leaves the cell's pit count unchanged, whoever moves.
C4_TuzdykCredit ==
  res = "ok" =>
    \A o \in Players :
      IF HasTuzdyk(prev, o)
        THEN /\ AfterSow.kazans[o] = prev.kazans[o] + Drops(TuzCell(prev, o))
             /\ PitAt(AfterSow.pits, TuzCell(prev, o)) = PitAt(prev.pits, TuzCell(prev, o))
             /\ PitAt(state.pits, TuzCell(prev, o)) = PitAt(prev.pits, TuzCell(prev, o))
             /\ o # Mover => state.kazans[o] = prev.kazans[o] + Drops(TuzCell(prev, o))
        ELSE AfterSow.kazans[o] = prev.kazans[o]

\* A move that dropped a stone on the tuzdyk its opponent owns on the mover's row.
C4_Witness ==
  /\ res = "ok"
  /\ HasTuzdyk(prev, Opp)
  /\ Drops(TuzCell(prev, Opp)) >= 1
  /\ state.kazans[Opp] > prev.kazans[Opp]

CreateCase ==
  /\ LastOnOpp
  /\ LastCount = 3
  /\ ~HasTuzdyk(prev, Mover)
  /\ CellIdx(LastCell) # 8
  /\ ~(HasTuzdyk(prev, Opp) /\ prev.tuzdyk_indices[Opp] = CellIdx(LastCell))

\* C6: tuzdyk creation.  In the create case the mover's tuzdyk becomes the
\* cell's index, the mover's kazan grows by exactly 3 and the cell is zeroed;
\* in every other case the tuzdyk fields of the successor are the predecessor's.
C6_TuzdykCreation ==
  res = "ok" =>
    IF CreateCase
      THEN /\ state.tuzdyk_indices = [prev.tuzdyk_indices EXCEPT ![Mover] = CellIdx(LastCell)]
           /\ state.kazans[Mover] = prev.kazans[Mover] + 3
           /\ state.kazans[Opp] = AfterSow.kazans[Opp]
           /\ state.pits[Opp][CellIdx(LastCell)] = 0
      ELSE state.tuzdyk_indices = prev.tuzdyk_indices

\* A move that created a tuzdyk.
C6_Witness ==
  /\ res = "ok"
  /\ CreateCase
  /\ HasTuzdyk(state, Mover)

\* C7: no tuzdyk at index 8.  No player's tuzdyk index is ever 8, and a move
\* whose last affected cell is the opponent's index 8 with 3 stones creates
\* no tuzdyk and leaves the 3 stones in the pit.
C7_NoNinthTuzdyk ==
  /\ \A p \in Players : state.tuzdyk_indices[p] # 8
  /\ (res = "ok" /\ LastOnOpp /\ CellIdx(LastCell) = 8 /\ LastCount = 3) =>
       /\ state.tuzdyk_indices = prev.tuzdyk_indices
       /\ state.pits[Opp][8] = 3
       /\ state.kazans = AfterSow.kazans

\* A player without a tuzdyk made 3 in the opponent's ninth pit.
C7_Witness ==
  /\ res = "ok"
  /\ LastOnOpp
  /\ CellIdx(LastCell) = 8
  /\ LastCount = 3
  /\ ~HasTuzdyk(prev, Mover)

\* C8: no mirrored tuzdyk.  Two owned tuzdyks never have the same index, and a
\* move making 3 on the opponent's cell whose index is the opponent's tuzdyk
\* index creates no tuzdyk and leaves the 3 stones in the pit.
C8_NoMirroredTuzdyk ==
  /\ (HasTuzdyk(state, WHITE) /\ HasTuzdyk(state, BLACK)) =>
       state.tuzdyk_indices[WHITE] # state.tuzdyk_indices[BLACK]
  /\ (res = "ok" /\ LastOnOpp /\ LastCount = 3 /\ HasTuzdyk(prev, Opp)
        /\ CellIdx(LastCell) = prev.tuzdyk_indices[Opp]) =>
       /\ state.tuzdyk_indices = prev.tuzdyk_indices
       /\ state.pits[Opp][CellIdx(LastCell)] = 3
       /\ state.kazans = AfterSow.kazans

\* A player without a tuzdyk made 3 on the cell mirroring the opponent's tuzdyk.
C8_Witness ==
  /\ res = "ok"
  /\ LastOnOpp
  /\ LastCount = 3
  /\ ~HasTuzdyk(prev, Mover)
  /\ HasTuzdyk(prev, Opp)
  /\ CellIdx(LastCell) = prev.tuzdyk_indices[Opp]

TerminalByScore(s) == s.kazans[WHITE] >= WinScore \/ s.kazans[BLACK] >= WinScore
MoverRowEmpty(s) == RowSum(s.pits[s.player_to_move]) = 0

\* C9: terminal is absorbing.  is_terminal holds exactly when a kazan is at
\* least 82 or the mover's row is empty; a state terminal by atsyrau admits
\* no move, and every successor of a terminal state is terminal.
C9_TerminalAbsorbing ==
  /\ is_terminal(state) <=> (TerminalByScore(state) \/ MoverRowEmpty(state))
  /\ is_terminal(prev) <=> (TerminalByScore(prev) \/ MoverRowEmpty(prev))
  /\ MoverRowEmpty(state) =>
       \A pit \in PitIdx : apply_move(state, pit).status = "ValueError"
  /\ is_terminal(state) =>
       \A pit \in PitIdx : apply_move(state, pit).status = "ok" =>
                             is_terminal(apply_move(state, pit).state)
  /\ (res = "ok" /\ is_terminal(prev)) => is_terminal(state)
  /\ (res # "init" /\ MoverRowEmpty(prev)) => (res = "ValueError" /\ state = prev)

\* A move was applied to a state terminal by score whose mover had less than 82.
C9_Witness ==
  /\ res = "ok"
  /\ TerminalByScore(prev)
  /\ prev.kazans[Mover] < WinScore
  /\ is_terminal(state)

\* C10: final_scores.  With a kazan of at least 82 the scores are the kazans;
\* otherwise, at atsyrau, each side scores its kazan plus its own row, the
\* mover scores exactly its kazan, and the scores sum to 162.
C10_FinalScores ==
  LET fs == final_scores(state)
      m == state.player_to_move
  IN /\ TerminalByScore(state) => fs = state.kazans
     /\ (~TerminalByScore(state) /\ is_terminal(state)) =>
          /\ \A p \in Players : fs[p] = state.kazans[p] + RowSum(state.pits[p])
          /\ fs[m] = state.kazans[m]
          /\ fs[WHITE] + fs[BLACK] = TotalSeeds

\* A move led to atsyrau with stones left on the other row and no kazan at 82.
C10_Witness ==
  /\ res = "ok"
  /\ ~TerminalByScore(state)
  /\ MoverRowEmpty(state)
  /\ RowSum(state.pits[opponent_of(state.player_to_move)]) > 0


\* C11: outcome.  In a terminal state the result is the side with the
\* strictly higher final score and a draw (None) exactly when the final
\* scores are equal; at most one kazan is at least 82, and a state terminal
\* by score is won by the player holding at least 82.
C11_Outcome ==
  LET fs == final_scores(state)
  IN /\ ~(state.kazans[WHITE] >= WinScore /\ state.kazans[BLACK] >= WinScore)
     /\ is_terminal(state) =>
          /\ \A p \in Players : outcome(state) = p <=> fs[p] > fs[opponent_of(p)]
          /\ outcome(state) = None <=> fs[WHITE] = fs[BLACK]
          /\ \A p \in Players : state.kazans[p] >= WinScore => outcome(state) = p

\* A move ended the game with equal final scores.
C11_Witness ==
  /\ res = "ok"
  /\ ~is_terminal(prev)
  /\ is_terminal(state)
  /\ final_scores(state)[WHITE] = final_scores(state)[BLACK]
  /\ outcome(state) = None


\* C13: canonicalize is idempotent and returns a state whose mover is WHITE.
\* It is the identity when the mover is WHITE; otherwise it swaps the two
\* rows, the two kazans and the two tuzdyk indices, sets the mover to WHITE
\* and keeps move_number.
C13_Canonicalize ==
  \A s \in {state, prev} :
    LET c == canonicalize(s)
    IN /\ canonicalize(c) = c
       /\ c.player_to_move = WHITE
       /\ s.player_to_move = WHITE => c = s
       /\ s.player_to_move = BLACK =>
            /\ \A p \in Players :
                 /\ c.pits[p] = s.pits[opponent_of(p)]
                 /\ c.kazans[p] = s.kazans[opponent_of(p)]
                 /\ c.tuzdyk_indices[p] = s.tuzdyk_indices[opponent_of(p)]
            /\ c.move_number = s.move_number

\* A move left Black to move in a state whose rows, kazans and tuzdyk
\* indices all differ between the sides, so that the swap shows.
C13_Witness ==
  /\ res = "ok"
  /\ state.player_to_move = BLACK
  /\ state.pits[WHITE] # state.pits[BLACK]
  /\ state.kazans[WHITE] # state.kazans[BLACK]
  /\ state.tuzdyk_indices[WHITE] # state.tuzdyk_indices[BLACK]
  /\ canonicalize(state) # state


\* ------------------------------------------------- state objects by reference
\* A state object holds references to its lists: pits names a list of two
\* row references, kazans and tuzdyk_indices name one list each.
MaxObjs == 3

\* The value a state object stands for in heap h.
Deref(h, o) ==
  [pits |-> [p \in Players |-> h[h[o.pits][p]]],
   kazans |-> h[o.kazans],
   tuzdyk_indices |-> h[o.tuzdyk_indices],
   player_to_move |-> o.player_to_move,
   move_number |-> o.move_number]

\* A list display: a new list object with the given contents.
NewList(h, contents) == [heap |-> Append(h, contents), ref |-> Len(h) + 1]

\* A slice that hands back the list it was taken from.
CopyList_Alias(h, r) == [heap |-> h, ref |-> r]

\* r[:], a new list object with the contents of list r.
CopyList(h, r) == [heap |-> Append(h, h[r]), ref |-> Len(h) + 1]

\* TogyzKumalakState(...) for a state value: every list is a new object.
NewState(h, s) ==
  LET w == NewList(h, s.pits[WHITE])
      b == NewList(w.heap, s.pits[BLACK])
      o == NewList(b.heap, [p \in Players |-> IF p = WHITE THEN w.ref ELSE b.ref])
      k == NewList(o.heap, s.kazans)
      z == NewList(k.heap, s.tuzdyk_indices)
  IN [heap |-> z.heap,
      obj |-> [pits |-> o.ref, kazans |-> k.ref, tuzdyk_indices |-> z.ref,
               player_to_move |-> s.player_to_move, move_number |-> s.move_number]]

\* self.apply_move(pit_index) on the heap.  The locals pits, kazans and
\* tuzdyk_indices name the copies; every assignment of the method goes to
\* the lists the locals name, which end with the contents the sowing and the
\* capture compute from them.
apply_move_heap(h, self, pit_index) ==
  LET w == CopyList(h, h[self.pits][WHITE])
      b == CopyList(w.heap, h[self.pits][BLACK])
      pits == NewList(b.heap, [p \in Players |-> IF p = WHITE THEN w.ref ELSE b.ref])
      kazans == CopyList(pits.heap, self.kazans)
      tuzdyk_indices == CopyList(kazans.heap, self.tuzdyk_indices)
      h1 == tuzdyk_indices.heap
      locals == [pits |-> pits.ref, kazans |-> kazans.ref,
                 tuzdyk_indices |-> tuzdyk_indices.ref,
                 player_to_move |-> self.player_to_move,
                 move_number |-> self.move_number]
      r == apply_move(Deref(h1, locals), pit_index)
  IN IF r.status # "ok" THEN [status |-> r.status, heap |-> h, obj |-> self]
     ELSE [status |-> "ok",
           heap |-> [h1 EXCEPT ![w.ref] = r.state.pits[WHITE],
                               ![b.ref] = r.state.pits[BLACK],
                               ![kazans.ref] = r.state.kazans,
                               ![tuzdyk_indices.ref] = r.state.tuzdyk_indices],
           obj |-> [locals EXCEPT !.player_to_move = opponent_of(self.player_to_move),
                                  !.move_number = self.move_number + 1]]

\* The positions the caller starts from: a fresh game, a position one move
\* before a tuzdyk is made, and a position with a tuzdyk on the board.
HeapRoots == {initial, MirrorPosition, WrapPosition}

\* The caller holds the root state object only.
InitHeap ==
  /\ root \in HeapRoots
  /\ state = root
  /\ prev = root
  /\ act = 0
  /\ res = "init"
  /\ heap = NewState(<<>>, root).heap
  /\ objs = <<NewState(<<>>, root).obj>>
  /\ made = <<<<0, 0>>>>
  /\ hcall = [obj |-> 0, act |-> 0, status |-> "init"]
  /\ FenIdle
  /\ SearchIdle

\* objs[i].apply_move(pit_index) returns; the caller keeps the new object
\* next to the ones it holds.
HeapApply(i, pit_index) ==
  /\ Len(objs) < MaxObjs
  /\ LET r == apply_move_heap(heap, objs[i], pit_index)
     IN /\ r.status = "ok"
        /\ heap' = r.heap
        /\ objs' = Append(objs, r.obj)
  /\ made' = Append(made, <<i, pit_index>>)
  /\ hcall' = [obj |-> i, act |-> pit_index, status |-> "ok"]
  /\ UNCHANGED <<gameVars, fenVars, searchVars>>

\* objs[i].apply_move(pit_index) raises.
HeapApplyRaises(i, pit_index) ==
  /\ LET r == apply_move_heap(heap, objs[i], pit_index)
     IN /\ r.status # "ok"
        /\ heap' = r.heap
        /\ hcall' = [obj |-> i, act |-> pit_index, status |-> r.status]
  /\ UNCHANGED <<objs, made, gameVars, fenVars, searchVars>>

NextHeap ==
  \/ \E i \in 1 .. Len(objs), pit_index \in PitIdx : HeapApply(i, pit_index)
  \/ \E i \in 1 .. Len(objs), pit_index \in PitIdx : HeapApplyRaises(i, pit_index)

SpecHeap == InitHeap /\ [][NextHeap]_vars

\* The value of held object i when computed on fresh copies: the root
\* position, or apply_move of the value of the object it was made from.
RECURSIVE Val(_)
Val(i) == IF i = 1 THEN root ELSE apply_move(Val(made[i][1]), made[i][2]).state

\* C12: apply_move never mutates its input.  Whatever calls were made on
\* the held objects, in whatever order, every held object still stands for
\* the value it was made with, which is the successor computed on fresh
\* copies; a successor has the mover flipped and move_number one higher.
C12_NoMutation ==
  \A i \in 1 .. Len(objs) :
    /\ Deref(heap, objs[i]) = Val(i)
    /\ i > 1 =>
         /\ objs[i].player_to_move = opponent_of(objs[made[i][1]].player_to_move)
         /\ objs[i].move_number = objs[made[i][1]].move_number + 1

\* Two different actions were applied to the root object, one after the
\* other, giving two different successors, and the root object still stands
\* for the root position.
C12_Witness ==
  /\ Len(objs) = 3
  /\ made[2][1] = 1
  /\ made[3][1] = 1
  /\ made[2][2] # made[3][2]
  /\ Deref(heap, objs[2]) # Deref(heap, objs[3])
  /\ Deref(heap, objs[1]) = root


\* C14: serialization round trip.  For every state reached from initial()
\* by legal moves, deserialize_fen(serialize_fen(s)) succeeds and equals s
\* in every field: mover, both rows, both kazans, both tuzdyk entries
\* (absence included) and move_number.
C14_RoundTrip ==
  LET r == deserialize_fen(serialize_fen(state))
  IN /\ r.status = "ok"
     /\ r.state.player_to_move = state.player_to_move
     /\ r.state.pits = state.pits
     /\ r.state.kazans = state.kazans
     /\ r.state.tuzdyk_indices = state.tuzdyk_indices
     /\ r.state.move_number = state.move_number
     /\ r.state = state

\* A move left Black to move with exactly one tuzdyk on the board, a kazan
\* and a pit of two digits and an empty pit.
C14_Witness ==
  /\ res = "ok"
  /\ state.player_to_move = BLACK
  /\ \E p \in Players : /\ state.tuzdyk_indices[p] # None
                        /\ state.tuzdyk_indices[opponent_of(p)] = None
  /\ \E p \in Players : state.kazans[p] >= 10
  /\ \E p \in Players, i \in PitIdx : state.pits[p][i] >= 10
  /\ \E p \in Players, i \in PitIdx : state.pits[p][i] = 0
  /\ deserialize_fen(serialize_fen(state)).status = "ok"


\* ------------------------------------------------------- reading a position
\* choose_move(fen) reads a position from a text handed in from outside.
\* The texts tried are the serialization of the current state and texts
\* that differ from it in one respect.
MaxFenPlies == 1

\* State-like values whose serialization is tried: s itself, s with one
\* stone more in a kazan or in a pit, a row of 8 or of 10 counts, a negative
\* kazan, a negative pit count, a tuzdyk entry of 9 or of -2.  But for the
\* first two the counts still sum to what they sum to in s.
FenVariants(s) ==
  LET w == SeqOf(s.pits[WHITE])
  IN {s,
      [s EXCEPT !.kazans[WHITE] = @ + 1],
      [s EXCEPT !.pits[BLACK][8] = @ + 1],
      [s EXCEPT !.pits[WHITE] = ListOf(SubSeq(w, 1, 8)), !.kazans[WHITE] = @ + w[9]],
      [s EXCEPT !.pits[WHITE] = ListOf(Append(w, 0))],
      [s EXCEPT !.kazans[WHITE] = 0 - 1, !.kazans[BLACK] = @ + s.kazans[WHITE] + 1],
      [s EXCEPT !.pits[WHITE][0] = 0 - 1, !.kazans[WHITE] = @ + s.pits[WHITE][0] + 1],
      [s EXCEPT !.tuzdyk_indices[WHITE] = 9],
      [s EXCEPT !.tuzdyk_indices[BLACK] = 0 - 2]}

\* The texts tried in state s: the serializations above, the serialization
\* of s with the letter X for the mover, and the one without its last field.
FenTexts(s) ==
  LET fen == serialize_fen(s)
      parts == Split(fen, "|")
  IN {serialize_fen(v) : v \in FenVariants(s)}
       \cup {<<"X">> \o Tail(fen)}
       \cup {Join("|", SubSeq(parts, 1, 4))}

\* state = deserialize_fen(fen) returns.
DeserializeOk(fen) ==
  /\ deserialize_fen(fen).status = "ok"
  /\ text' = fen
  /\ parsed' = deserialize_fen(fen)
  /\ UNCHANGED <<gameVars, heapVars, searchVars>>

\* deserialize_fen(fen) raises.
DeserializeRaises(fen) ==
  /\ deserialize_fen(fen).status # "ok"
  /\ text' = fen
  /\ parsed' = deserialize_fen(fen)
  /\ UNCHANGED <<gameVars, heapVars, searchVars>>

NextFen ==
  \/ \E pit_index \in PitIdx : MoveOk(pit_index, MaxFenPlies)
  \/ \E fen \in FenTexts(state) : DeserializeOk(fen)
  \/ \E fen \in FenTexts(state) : DeserializeRaises(fen)

SpecFen == Init /\ [][NextFen]_vars

\* The grammar of a position text, read off the text itself: five fields
\* separated by "|"; the rows, the kazans and the tuzdyk entries separated
\* by ","; the counts of a row separated by "-".
IsNumeral(x) == Len(x) > 0 /\ \A i \in 1 .. Len(x) : IsDigit(x[i])
FiveFields(x) == Len(Split(x, "|")) = 5
TextRows(x) == Split(Split(x, "|")[2], ",")
TextKazans(x) == Split(Split(x, "|")[3], ",")
TextTuzdyks(x) == Split(Split(x, "|")[4], ",")
LetterAllowed(x) == Split(x, "|")[1] \in {<<"W">>, <<"B">>}
RowsOfNine(x) ==
  /\ Len(TextRows(x)) = 2
  /\ \A r \in 1 .. 2 : Len(Split(TextRows(x)[r], "-")) = 9
\* A count written with a minus sign: in a row, a "-" that starts the row or
\* follows another "-"; among the kazans, a numeral after a "-".
NegativeCount(x) ==
  \/ \E r \in 1 .. Len(TextRows(x)) :
       LET row == TextRows(x)[r]
       IN \E i \in 1 .. Len(row) : row[i] = "-" /\ (i = 1 \/ row[i - 1] = "-")
  \/ \E k \in 1 .. Len(TextKazans(x)) :
       LET kz == TextKazans(x)[k]
       IN Len(kz) > 1 /\ kz[1] = "-" /\ IsNumeral(Tail(kz))
TuzdykAllowed(x) ==
  /\ Len(TextTuzdyks(x)) = 2
  /\ \A k \in 1 .. 2 :
       LET tz == TextTuzdyks(x)[k]
       IN tz = <<"-">> \/ (IsNumeral(tz) /\ NatVal(tz) <= 8)
WellShaped(x) ==
  /\ FiveFields(x)
  /\ LetterAllowed(x)
  /\ RowsOfNine(x)
  /\ \A r \in 1 .. 2 : \A i \in 1 .. 9 : IsNumeral(Split(TextRows(x)[r], "-")[i])
  /\ Len(TextKazans(x)) = 2
  /\ \A k \in 1 .. 2 : IsNumeral(TextKazans(x)[k])
  /\ TuzdykAllowed(x)
  /\ IsNumeral(Split(x, "|")[5])
  /\ NatVal(Split(x, "|")[5]) >= 1
\* The pit counts plus the kazans of a well-shaped text.
RECURSIVE SumNumerals(_)
SumNumerals(xs) == IF xs = <<>> THEN 0 ELSE NatVal(Head(xs)) + SumNumerals(Tail(xs))
TextSum(x) ==
  SumNumerals(Split(TextRows(x)[1], "-")) + SumNumerals(Split(TextRows(x)[2], "-"))
    + SumNumerals(TextKazans(x))

\* C15: deserialization checks seed conservation.  A call of deserialize_fen
\* on a well-shaped text whose pit counts plus kazans do not sum to 162
\* raises and returns no state.
C15_SumChecked ==
  (parsed.status # "init" /\ WellShaped(text) /\ TextSum(text) # TotalSeeds) =>
    parsed.status = "ValueError"

\* C16: deserialization rejects malformed shapes.  A call of deserialize_fen
\* raises and returns no state on a five-field text whose mover letter is
\* not one of the two letters, whose rows do not each have 9 counts, that
\* has a negative count, or whose tuzdyk field is neither "-" nor an integer
\* in 0..8.
C16_ShapeChecked ==
  (/\ parsed.status # "init"
   /\ FiveFields(text)
   /\ \/ ~LetterAllowed(text)
      \/ ~RowsOfNine(text)
      \/ NegativeCount(text)
      \/ ~TuzdykAllowed(text)) =>
    parsed.status = "ValueError"


\* The fingerprint of a state: the key of its canonical form.
Fingerprint(s) == state_key(canonicalize(s))
\* States compared with each other: the current state, the receiver of the
\* latest call and the start position, each also mirrored and with another
\* move_number.
Compared ==
  LET base == {state, prev, root}
  IN base \cup {mirror_state(s) : s \in base}
          \cup {[s EXCEPT !.move_number = @ + 2] : s \in base}
SameBoard(c, d) ==
  /\ c.pits = d.pits
  /\ c.kazans = d.kazans
  /\ c.tuzdyk_indices = d.tuzdyk_indices

\* C17: fingerprint.  Two states have the same key of their canonical
\* forms exactly when the canonical forms agree on both rows, both kazans
\* and both tuzdyk entries, whatever their move_number; and the key of
\* apply_move(s, a) differs from the key of s for every legal action a, with
\* and without canonicalization.
C17_Fingerprint ==
  /\ \A s, u \in Compared :
       Fingerprint(s) = Fingerprint(u) <=> SameBoard(canonicalize(s), canonicalize(u))
  /\ \A a \in legal_moves(state) :
       LET ns == apply_move(state, a).state
       IN /\ state_key(ns) # state_key(state)
          /\ Fingerprint(ns) # Fingerprint(state)

\* A move left Black to move: the state and its mirror image, two different
\* states, have one fingerprint, which is not the fingerprint of the state
\* moved from.
C17_Witness ==
  /\ res = "ok"
  /\ state.player_to_move = BLACK
  /\ mirror_state(state) # state
  /\ Fingerprint(mirror_state(state)) = Fingerprint(state)
  /\ Fingerprint([state EXCEPT !.move_number = @ + 2]) = Fingerprint(state)
  /\ Fingerprint(state) # Fingerprint(prev)


\* ---------------------------------------------------------------- the search
\* Numbers of the search are exact fractions.  A policy entry of the
\* inference function is a count of sixteenths, a prior is a numerator over
\* the denominator kept with it, a value or value_sum is a count of halves.
\* The engine is built with the defaults c_puct = 3/2 and dirichlet_frac =
\* 1/4.
NumSims == 2
MaxSearches == 2
PolicyDen == 16
ValueDen == 2
NoiseDen == 16

\* The inference functions an engine is built with.  "flat" answers every
\* state with the policy 2/16 for all nine actions and the value 0; "skew"
\* answers with (1 + pits[WHITE][a] mod 3)/16 and with the value 1/2 when
\* White's kazan is not behind, else -1/2; "faulty" answers as "flat" does
\* but raises an error on every state where a kazan holds exactly
\* FaultScore stones.
EvalKinds == {"flat", "skew", "faulty"}
FaultScore == 81
inference_raises(kind, s) ==
  kind = "faulty" /\ (s.kazans[WHITE] = FaultScore \/ s.kazans[BLACK] = FaultScore)
inference_fn(kind, s) ==
  IF kind \in {"flat", "faulty"}
    THEN [policy |-> [a \in PitIdx |-> 2], value |-> 0]
    ELSE [policy |-> [a \in PitIdx |-> 1 + (s.pits[WHITE][a] % 3)],
          value |-> IF s.kazans[WHITE] >= s.kazans[BLACK] THEN 1 ELSE 0 - 1]

\* Node(prior=...) as a child of a node, and Node(prior=1.0, state=state) as
\* an entry of the table.
ChildNode(num) ==
  [prior |-> [num |-> num, den |-> PolicyDen], visit_count |-> 0, value_sum |-> 0]
TableNode(s) ==
  [prior |-> [num |-> 1, den |-> 1], state |-> s, visit_count |-> 0, value_sum |-> 0,
   children |-> <<>>]

KeyOf(s) == state_key(canonicalize(s))
HasChildren(node) == DOMAIN node.children # {}

\* _get_or_create_node that makes a new node at every call.
_get_or_create_node_AlwaysNew(tb, s) ==
  [key \in DOMAIN tb \cup {KeyOf(s)} |-> IF key = KeyOf(s) THEN TableNode(s) ELSE tb[key]]

\* self._get_or_create_node(state): the table afterwards; the node is the
\* entry under KeyOf(state).
_get_or_create_node(tb, s) ==
  IF KeyOf(s) \in DOMAIN tb THEN tb ELSE tb @@ (KeyOf(s) :> TableNode(s))

\* _ensure_expanded that also expands the node of a terminal state.
_ensure_expanded_Terminal(tb, ev, kind, s) ==
  IF HasChildren(tb[KeyOf(s)]) THEN [table |-> tb, evals |-> ev, raised |-> FALSE]
  ELSE IF inference_raises(kind, canonicalize(s))
    THEN [table |-> tb, evals |-> ev \cup {canonicalize(s)}, raised |-> TRUE]
  ELSE LET policy_ == inference_fn(kind, canonicalize(s)).policy
       IN [table |-> [tb EXCEPT ![KeyOf(s)].children =
                        [a \in legal_moves(s) |-> ChildNode(policy_[a])]],
           evals |-> ev \cup {canonicalize(s)}, raised |-> FALSE]

\* _ensure_expanded that divides the priors of the legal actions by their sum.
_ensure_expanded_Renormalized(tb, ev, kind, s) ==
  IF HasChildren(tb[KeyOf(s)]) \/ is_terminal(s)
    THEN [table |-> tb, evals |-> ev, raised |-> FALSE]
  ELSE IF inference_raises(kind, canonicalize(s))
    THEN [table |-> tb, evals |-> ev \cup {canonicalize(s)}, raised |-> TRUE]
  ELSE LET policy_ == inference_fn(kind, canonicalize(s)).policy
           mass == RowSum([a \in PitIdx |-> IF a \in legal_moves(s) THEN policy_[a] ELSE 0])
       IN [table |-> [tb EXCEPT ![KeyOf(s)].children =
                        [a \in legal_moves(s) |->
                           [ChildNode(policy_[a]) EXCEPT !.prior =
                              [num |-> policy_[a] * PolicyDen, den |-> mass * PolicyDen]]]],
           evals |-> ev \cup {canonicalize(s)}, raised |-> FALSE]

\* _ensure_expanded that answers a failure of the inference function with
\* the same prior for every legal action.
_ensure_expanded_UniformOnFailure(tb, ev, kind, s) ==
  IF HasChildren(tb[KeyOf(s)]) \/ is_terminal(s)
    THEN [table |-> tb, evals |-> ev, raised |-> FALSE]
  ELSE IF inference_raises(kind, canonicalize(s))
    THEN [table |-> [tb EXCEPT ![KeyOf(s)].children =
                       [a \in legal_moves(s) |-> ChildNode(1)]],
          evals |-> ev \cup {canonicalize(s)}, raised |-> FALSE]
  ELSE LET policy_ == inference_fn(kind, canonicalize(s)).policy
       IN [table |-> [tb EXCEPT ![KeyOf(s)].children =
                        [a \in legal_moves(s) |-> ChildNode(policy_[a])]],
           evals |-> ev \cup {canonicalize(s)}, raised |-> FALSE]

\* self._ensure_expanded(node, state) for the node of state: the table and
\* the states handed to inference_fn afterwards, and whether the call of
\* inference_fn raised (the node is then left as it was).
_ensure_expanded(tb, ev, kind, s) ==
  IF HasChildren(tb[KeyOf(s)]) \/ is_terminal(s)
    THEN [table |-> tb, evals |-> ev, raised |-> FALSE]
  ELSE IF inference_raises(kind, canonicalize(s))
    THEN [table |-> tb, evals |-> ev \cup {canonicalize(s)}, raised |-> TRUE]
  ELSE LET policy_ == inference_fn(kind, canonicalize(s)).policy
       IN [table |-> [tb EXCEPT ![KeyOf(s)].children =
                        [a \in legal_moves(s) |-> ChildNode(policy_[a])]],
           evals |-> ev \cup {canonicalize(s)}, raised |-> FALSE]

\* a/b > c/d for a, c >= 0 and b, d > 0, without multiplying.
RECURSIVE FracGT(_, _, _, _)
FracGT(a, b, c, d) ==
  IF a \div b # c \div d THEN a \div b > c \div d
  ELSE IF a % b = 0 THEN FALSE
  ELSE IF c % d = 0 THEN TRUE
  ELSE FracGT(d, c % d, b, a % b)
Abs(x) == IF x < 0 THEN 0 - x ELSE x
\* l > r * sqrt(t) for integers l, r and t >= 1.
GreaterThanRoot(l, r, t) ==
  IF r > 0 THEN (IF l <= 0 THEN FALSE ELSE FracGT(l, r, r * t, l))
  ELSE IF l >= 0 THEN (l > 0 \/ r < 0)
  ELSE IF r = 0 THEN FALSE
  ELSE FracGT(Abs(r) * t, Abs(l), Abs(l), Abs(r))

\* score of child c > score of child b in _select_child, where
\* score = value + c_puct * prior * sqrt(total_visits) / (1 + visit_count)
\* and both priors have one denominator.
ScoreGreater(c, b, total_visits) ==
  LET nc == IF c.visit_count = 0 THEN 1 ELSE c.visit_count
      nb == IF b.visit_count = 0 THEN 1 ELSE b.visit_count
      x == c.value_sum * nb - b.value_sum * nc
      y == b.prior.num * (1 + c.visit_count) - c.prior.num * (1 + b.visit_count)
  IN GreaterThanRoot(2 * x * c.prior.den * (1 + b.visit_count) * (1 + c.visit_count),
                     3 * ValueDen * y * nc * nb,
                     total_visits)

RECURSIVE SumVisits(_, _)
SumVisits(children, acts) ==
  IF acts = {} THEN 0
  ELSE LET a == CHOOSE x \in acts : TRUE
       IN children[a].visit_count + SumVisits(children, acts \ {a})

\* _select_child that keeps the last of the actions with the best score.
_select_child_LastBest(node) ==
  LET ch == node.children
      total_visits == 1 + SumVisits(ch, DOMAIN ch)
  IN CHOOSE a \in DOMAIN ch :
       \A b \in DOMAIN ch \ {a} :
         IF b > a THEN ScoreGreater(ch[a], ch[b], total_visits)
         ELSE ~ScoreGreater(ch[b], ch[a], total_visits)

\* self._select_child(node): the first action, in the order of the
\* children, whose score no other one exceeds.
_select_child(node) ==
  LET ch == node.children
      total_visits == 1 + SumVisits(ch, DOMAIN ch)
  IN CHOOSE a \in DOMAIN ch :
       \A b \in DOMAIN ch \ {a} :
         IF b < a THEN ScoreGreater(ch[a], ch[b], total_visits)
         ELSE ~ScoreGreater(ch[b], ch[a], total_visits)

\* The noise vectors _dirichlet(k, alpha) is taken to return: 1/16 for every
\* action but one, the heavy one, which gets the rest.
\* _add_root_dirichlet that mixes the noise into the children of every
\* expanded node of the table.
_add_root_dirichlet_EveryNode(tb, key, heavy) ==
  [other \in DOMAIN tb |->
     LET ch == tb[other].children
         k == Cardinality(DOMAIN ch)
         Pos(a) == Cardinality({b \in DOMAIN ch : b < a})
         NoiseOf(j) == IF j = heavy THEN 16 - (k - 1) ELSE 1
     IN [tb[other] EXCEPT !.children =
           [a \in DOMAIN ch |->
              [ch[a] EXCEPT !.prior =
                 [num |-> 3 * ch[a].prior.num + NoiseOf(Pos(a)) * (ch[a].prior.den \div 16),
                  den |-> 4 * ch[a].prior.den]]]]]
NoiseAt(k, heavy, j) == IF j = heavy THEN NoiseDen - (k - 1) ELSE 1
\* self._add_root_dirichlet(root) with the heavy entry at position heavy of
\* the root's actions: prior = 3/4 * prior + 1/4 * eps.
_add_root_dirichlet(tb, key, heavy) ==
  LET ch == tb[key].children
      k == Cardinality(DOMAIN ch)
      Pos(a) == Cardinality({b \in DOMAIN ch : b < a})
  IN IF k = 0 THEN tb
     ELSE [tb EXCEPT ![key].children =
             [a \in DOMAIN ch |->
                [ch[a] EXCEPT !.prior =
                   [num |-> 3 * ch[a].prior.num
                              + NoiseAt(k, heavy, Pos(a)) * (ch[a].prior.den \div NoiseDen),
                    den |-> 4 * ch[a].prior.den]]]]

\* self._evaluate(state): the value, in halves, with the table and the
\* states handed to inference_fn afterwards, and whether inference_fn raised.
_evaluate(tb, ev, kind, s) ==
  IF is_terminal(s)
    THEN [value |-> IF outcome(s) = None THEN 0
                    ELSE IF outcome(s) = s.player_to_move THEN ValueDen ELSE 0 - ValueDen,
          table |-> tb, evals |-> ev, raised |-> FALSE]
  ELSE IF inference_raises(kind, canonicalize(s))
    THEN [value |-> 0, table |-> tb, evals |-> ev \cup {canonicalize(s)}, raised |-> TRUE]
  ELSE LET r == inference_fn(kind, canonicalize(s))
           tb1 == _get_or_create_node(tb, s)
       IN [value |-> r.value,
           table |-> IF HasChildren(tb1[KeyOf(s)]) THEN tb1
                     ELSE [tb1 EXCEPT ![KeyOf(s)].children =
                             [a \in legal_moves(s) |-> ChildNode(r.policy[a])]],
           evals |-> ev \cup {canonicalize(s)}, raised |-> FALSE]

\* Backup that adds the leaf's value with the same sign at every step.
Backup_NoFlip(tb, p, value) ==
  [key \in DOMAIN tb |->
     [tb[key] EXCEPT !.children =
        [a \in DOMAIN tb[key].children |->
           LET same == {i \in 1 .. Len(p) : p[i] = <<key, a>>}
           IN [tb[key].children[a] EXCEPT
                 !.visit_count = @ + Cardinality(same),
                 !.value_sum = @ + value * Cardinality(same)]]]]

\* The backup loop of _simulate: along the path from its end, every child
\* taken gets one visit and the value, whose sign flips at every step.
Backup(tb, p, value) ==
  [key \in DOMAIN tb |->
     [tb[key] EXCEPT !.children =
        [a \in DOMAIN tb[key].children |->
           LET same == {i \in 1 .. Len(p) : p[i] = <<key, a>>}
               asis == {i \in same : (Len(p) - i) % 2 = 0}
           IN [tb[key].children[a] EXCEPT
                 !.visit_count = @ + Cardinality(same),
                 !.value_sum = @ + value * (2 * Cardinality(asis) - Cardinality(same))]]]]

\* search that divides the visit counts by num_simulations.
SearchResult_OverSims(node, s) ==
  LET counts == [a \in PitIdx |-> IF a \in DOMAIN node.children
                                    THEN node.children[a].visit_count ELSE 0]
      total == SumVisits(node.children, DOMAIN node.children)
      legal == legal_moves(s)
  IN IF total <= 0
       THEN IF legal = {} THEN [num |-> counts, den |-> 1]
            ELSE [num |-> [a \in PitIdx |-> IF a \in legal THEN 1 ELSE counts[a]],
                  den |-> Cardinality(legal)]
     ELSE [num |-> counts, den |-> NumSims]

\* The end of search: the list returned, as counts over a denominator.
SearchResult(node, s) ==
  LET counts == [a \in PitIdx |-> IF a \in DOMAIN node.children
                                    THEN node.children[a].visit_count ELSE 0]
      total == SumVisits(node.children, DOMAIN node.children)
      legal == legal_moves(s)
  IN IF total <= 0
       THEN IF legal = {} THEN [num |-> counts, den |-> 1]
            ELSE [num |-> [a \in PitIdx |-> IF a \in legal THEN 1 ELSE counts[a]],
                  den |-> Cardinality(legal)]
     ELSE [num |-> counts, den |-> total]


\* The positions a new engine is first asked about: late positions, from
\* which the simulations run to the end of the game within a few dozen
\* moves, and two finished games, one won by score with stones left on the
\* mover's row, one ended by atsyrau.
ScoreWonPosition == Replay(ScorePosition, <<0, 8>>)
AtsyrauEndPosition == Replay(AtsyrauPosition, <<6, 1>>)
\* A position 126 moves into a game from which two lines of different
\* length lead to one position.
TransPos1 == Replay(initial, <<5, 8, 2, 0, 8, 3, 8, 8>>)
TransPos2 == Replay(TransPos1, <<1, 6, 4, 6, 4, 6, 1, 3>>)
TransPos3 == Replay(TransPos2, <<8, 8, 7, 6, 5, 8, 1, 3>>)
TransPos4 == Replay(TransPos3, <<8, 5, 7, 7, 3, 3, 8, 6>>)
TransPos5 == Replay(TransPos4, <<3, 4, 7, 7, 4, 4, 0, 2>>)
TransPos6 == Replay(TransPos5, <<8, 2, 6, 5, 4, 7, 5, 8>>)
TransPos7 == Replay(TransPos6, <<8, 1, 0, 3, 6, 4, 5, 4>>)
TransPos8 == Replay(TransPos7, <<5, 8, 4, 6, 1, 2, 8, 8>>)
TransPos9 == Replay(TransPos8, <<7, 3, 5, 1, 6, 5, 8, 3>>)
TransPos10 == Replay(TransPos9, <<3, 5, 4, 2, 0, 4, 6, 4>>)
TransPos11 == Replay(TransPos10, <<1, 6, 5, 2, 7, 3, 7, 8>>)
TransPos12 == Replay(TransPos11, <<5, 6, 6, 7, 0, 8, 6, 8>>)
TransPos13 == Replay(TransPos12, <<1, 5, 0, 6, 1, 4, 3, 3>>)
TransPos14 == Replay(TransPos13, <<4, 7, 5, 4, 1, 8, 7, 7>>)
TransPos15 == Replay(TransPos14, <<0, 8, 3, 5, 1, 7, 4, 6>>)
TranspositionPosition == Replay(TransPos15, <<6, 5, 5, 7, 6, 6>>)
SearchRoots ==
  {ScorePosition, AtsyrauPosition, DrawPosition, ScoreWonPosition, AtsyrauEndPosition,
   TranspositionPosition}

\* mcts = MCTS(inference_fn, num_simulations=NumSims): the table is empty.
InitSearch ==
  /\ root \in SearchRoots
  /\ state = root
  /\ prev = root
  /\ act = 0
  /\ res = "init"
  /\ HeapIdle
  /\ FenIdle
  /\ table = <<>>
  /\ pc = "new"
  /\ sims = 0
  /\ searches = 0
  /\ path = <<>>
  /\ cur = root
  /\ evals = {}
  /\ leaf = [set |-> FALSE, state |-> initial, value |-> 0]
  /\ entry = [nodes |-> 0, visits |-> 0]
  /\ policy = [num |-> [a \in PitIdx |-> 0], den |-> 1]
  /\ ekind \in EvalKinds

\* The positions of the heavy noise entry tried for k root actions.
NoiseChoices(k) == IF k = 0 THEN {0} ELSE {0, k - 1}

\* mcts.search(state) is entered: the root node is looked up or made,
\* expanded, and its priors are mixed with noise; an error raised by
\* inference_fn leaves search at once.
SearchBegin(heavy) ==
  LET tb1 == _get_or_create_node(table, state)
      e == _ensure_expanded(tb1, evals, ekind, state)
      k == Cardinality(DOMAIN e.table[KeyOf(state)].children)
  IN /\ pc = "new"
     /\ searches < MaxSearches
     /\ heavy \in NoiseChoices(k)
     /\ table' = IF e.raised THEN e.table
                 ELSE _add_root_dirichlet(e.table, KeyOf(state), heavy)
     /\ evals' = e.evals
     /\ entry' = [nodes |-> Cardinality(DOMAIN table),
                  visits |-> IF KeyOf(state) \in DOMAIN table
                               THEN SumVisits(table[KeyOf(state)].children,
                                              DOMAIN table[KeyOf(state)].children)
                               ELSE 0]
     /\ searches' = searches + 1
     /\ sims' = 0
     /\ path' = <<>>
     /\ cur' = state
     /\ pc' = IF e.raised THEN "raised" ELSE "simulate"
     /\ UNCHANGED <<leaf, policy, ekind, gameVars, heapVars, fenVars>>

\* self._simulate(root_state) is entered.
SimBegin ==
  /\ pc = "simulate"
  /\ sims < NumSims
  /\ table' = _get_or_create_node(table, state)
  /\ path' = <<>>
  /\ cur' = state
  /\ pc' = "select"
  /\ UNCHANGED <<sims, searches, evals, leaf, entry, policy, ekind, gameVars, heapVars, fenVars>>

\* One round of the selection loop of _simulate; an error raised by
\* inference_fn leaves _simulate and search at once.
SimStep ==
  LET e == _ensure_expanded(table, evals, ekind, cur)
      node == e.table[KeyOf(cur)]
      action == _select_child(node)
      ns == apply_move(cur, action).state
  IN /\ pc = "select"
     /\ evals' = e.evals
     /\ IF e.raised
          THEN /\ table' = e.table
               /\ pc' = "raised"
               /\ UNCHANGED <<path, cur>>
        ELSE IF ~HasChildren(node)
          THEN /\ table' = e.table
               /\ pc' = "leaf"
               /\ UNCHANGED <<path, cur>>
          ELSE /\ path' = Append(path, <<KeyOf(cur), action>>)
               /\ cur' = ns
               /\ table' = _get_or_create_node(e.table, ns)
               /\ pc' = IF is_terminal(ns) THEN "leaf" ELSE "select"
     /\ UNCHANGED <<sims, searches, leaf, entry, policy, ekind, gameVars, heapVars, fenVars>>

\* The leaf is evaluated and the value is backed up along the path.
SimBackup ==
  LET v == _evaluate(table, evals, ekind, cur)
  IN /\ pc = "leaf"
     /\ evals' = v.evals
     /\ IF v.raised
          THEN /\ table' = v.table
               /\ pc' = "raised"
               /\ UNCHANGED <<leaf, sims>>
          ELSE /\ table' = Backup(v.table, path, v.value)
               /\ leaf' = [set |-> TRUE, state |-> cur, value |-> v.value]
               /\ sims' = sims + 1
               /\ pc' = "simulate"
     /\ UNCHANGED <<searches, path, cur, entry, policy, ekind, gameVars, heapVars, fenVars>>

\* search returns the visit shares of the root's children.
SearchEnd ==
  /\ pc = "simulate"
  /\ sims = NumSims
  /\ policy' = SearchResult(table[KeyOf(state)], state)
  /\ pc' = "done"
  /\ UNCHANGED <<table, sims, searches, path, cur, evals, leaf, entry, ekind,
                 gameVars, heapVars, fenVars>>

\* The caller plays a legal move the search gave a share of the visits
\* (play_episode samples one, play_game takes the one with the largest
\* share) and, unless that ends the game, goes on with the same engine.
CallerMove(pit_index) ==
  /\ pc = "done"
  /\ searches < MaxSearches
  /\ pit_index \in legal_moves(state)
  /\ policy.num[pit_index] > 0
  /\ state' = apply_move(state, pit_index).state
  /\ prev' = state
  /\ act' = pit_index
  /\ res' = "ok"
  /\ pc' = IF is_terminal(apply_move(state, pit_index).state) THEN "over" ELSE "new"
  /\ UNCHANGED <<root, table, sims, searches, path, cur, evals, leaf, entry, policy, ekind,
                 heapVars, fenVars>>

NextSearch ==
  \/ \E heavy \in PitIdx : SearchBegin(heavy)
  \/ SimBegin
  \/ SimStep
  \/ SimBackup
  \/ SearchEnd
  \/ \E pit_index \in PitIdx : CallerMove(pit_index)

SpecSearch == InitSearch /\ [][NextSearch]_vars


\* The visit counts of the root's children when the latest search returned.
RootVisits ==
  LET ch == table[KeyOf(state)].children
  IN [a \in PitIdx |-> IF a \in DOMAIN ch THEN ch[a].visit_count ELSE 0]
SearchReturned == pc = "done"

\* C18: policy validity.  For a root with at least one legal action, search
\* returns nine entries, none negative, that sum to 1; entry a is the share
\* of visits[a] in the total of the root's child visits, or, when that total
\* is zero, the same for every legal action; it is 0 for every action that
\* is not legal at the root.
C18_PolicyValid ==
  (SearchReturned /\ legal_moves(state) # {}) =>
    LET total == RowSum(RootVisits)
        legal == legal_moves(state)
    IN /\ DOMAIN policy.num = PitIdx
       /\ policy.den > 0
       /\ \A a \in PitIdx : policy.num[a] >= 0
       /\ RowSum(policy.num) = policy.den
       /\ total > 0 => \A a \in PitIdx : policy.num[a] * total = RootVisits[a] * policy.den
       /\ total = 0 => \A a \in legal : policy.num[a] * Cardinality(legal) = policy.den
       /\ \A a \in PitIdx \ legal : policy.num[a] = 0

\* A search returned a policy that gives two actions a share, at a root
\* where some pit is empty.
C18_Witness ==
  /\ SearchReturned
  /\ legal_moves(state) # PitIdx
  /\ \E a, b \in legal_moves(state) : a # b /\ policy.num[a] > 0 /\ policy.num[b] > 0
  /\ RowSum(RootVisits) = policy.den

\* C19: the transposition table is scoped to one search call.  Every search
\* call finds the table empty when it is entered, and no visit counted in an
\* earlier call on the same engine is there for it to see.
C19_TableScoped ==
  pc \in {"simulate", "select", "leaf", "done"} => (entry.nodes = 0 /\ entry.visits = 0)

\* C20: a terminal state is never handed to the inference function, neither
\* for expansion nor for evaluation; the value of a terminal leaf is +1 if
\* the outcome is a win for the leaf state's mover, -1 if it is a win for
\* the mover's opponent, and 0 on a draw.
C20_TerminalNotEvaluated ==
  /\ \A s \in evals : ~is_terminal(s)
  /\ (leaf.set /\ is_terminal(leaf.state)) =>
       LET m == leaf.state.player_to_move
       IN /\ canonicalize(leaf.state) \notin evals
          /\ outcome(leaf.state) = m => leaf.value = ValueDen
          /\ outcome(leaf.state) = opponent_of(m) => leaf.value = 0 - ValueDen
          /\ outcome(leaf.state) = None => leaf.value = 0

\* A simulation ended in a terminal state lost by its mover, after the
\* inference function had been asked about other states.
C20_Witness ==
  /\ leaf.set
  /\ is_terminal(leaf.state)
  /\ outcome(leaf.state) = opponent_of(leaf.state.player_to_move)
  /\ leaf.value = 0 - ValueDen
  /\ evals # {}

\* C21: every state handed to the inference function is canonical (White is
\* to move), and every entry of the table stands under the fingerprint of
\* the canonical form of the state it was made for: its key names White as
\* the mover, and an expanded entry was expanded from an inference call on a
\* canonical state with that fingerprint.  Every step of a simulation's
\* path names an entry of the table.
C21_Canonical ==
  /\ \A s \in evals : s.player_to_move = WHITE /\ canonicalize(s) = s
  /\ LET asked == {state_key(s) : s \in evals}
     IN \A key \in DOMAIN table :
          /\ key = state_key(canonicalize(table[key].state))
          /\ key[6] = WHITE
          /\ HasChildren(table[key]) => key \in asked
  /\ \A i \in 1 .. Len(path) : path[i][1] \in DOMAIN table
  /\ pc \in {"select", "leaf"} => KeyOf(cur) \in DOMAIN table

\* A state with Black to move was reached in a simulation, its entry was
\* expanded, and the inference function was asked about its mirror image.
C21_Witness ==
  \E key \in DOMAIN table :
    /\ table[key].state.player_to_move = BLACK
    /\ table[key].state.move_number > root.move_number
    /\ HasChildren(table[key])
    /\ mirror_state(table[key].state) \in evals
    /\ key = state_key(mirror_state(table[key].state))

\* The states search was called on so far, by fingerprint.
SearchedKeys ==
  IF searches = 0 THEN {}
  ELSE {KeyOf(root), KeyOf(prev)} \cup (IF pc = "new" THEN {} ELSE {KeyOf(state)})
\* The sum of the priors of a node's children, as a numerator.
PriorMass(node) ==
  RowSum([a \in PitIdx |-> IF a \in DOMAIN node.children
                             THEN node.children[a].prior.num ELSE 0])

\* C22: expansion gives a node one child per legal action of its state and
\* none for an illegal action, and the prior of each child is the entry of
\* the inference function's policy for that action, as given, over the
\* policy's own denominator; only the children of a state search was called
\* on carry another prior (the one mixed with noise).
C22_Expansion ==
  LET searched == SearchedKeys
  IN \A key \in DOMAIN table :
       LET node == table[key]
           given == inference_fn(ekind, canonicalize(node.state)).policy
           legal == legal_moves(node.state)
       IN /\ DOMAIN node.children \subseteq legal
          /\ HasChildren(node) => DOMAIN node.children = legal
          /\ \A a \in DOMAIN node.children :
               \/ /\ node.children[a].prior.den = PolicyDen
                  /\ node.children[a].prior.num = given[a]
               \/ /\ key \in searched
                  /\ node.children[a].prior.den > PolicyDen

\* A node below the root was expanded at a state with an empty pit: it has
\* fewer than nine children and their priors, taken as given, do not sum to 1.
C22_Witness ==
  \E key \in DOMAIN table \ SearchedKeys :
    /\ HasChildren(table[key])
    /\ legal_moves(table[key].state) # PitIdx
    /\ \A a \in DOMAIN table[key].children : table[key].children[a].prior.den = PolicyDen
    /\ PriorMass(table[key]) # PolicyDen

\* The next step of the engine calls inference_fn on a state it raises on:
\* search is about to expand its root, or a simulation is about to expand
\* the state it stands at, and that state is neither terminal nor expanded.
Asked == IF pc = "new" THEN state ELSE cur
CallFails ==
  /\ pc \in {"new", "select"}
  /\ ~is_terminal(Asked)
  /\ ~(KeyOf(Asked) \in DOMAIN table /\ HasChildren(table[KeyOf(Asked)]))
  /\ inference_raises(ekind, canonicalize(Asked))
SearchRaised == pc = "raised"

\* C23: a failure of the inference function propagates out of search.
\* When the function raises, at the expansion of the root or in a
\* simulation, the search call ends with the error at that step: no policy
\* is returned (the caller's policy stays what it was), no simulation is
\* counted, no value is backed up, and the state the function failed on
\* gets no children, so no prior stands in for the failed call.  Search
\* ends with an error in no other case, and nothing runs after the error.
C23_FailurePropagates ==
  [][/\ ~SearchRaised
     /\ CallFails <=> SearchRaised'
     /\ SearchRaised' =>
          /\ policy' = policy
          /\ leaf' = leaf
          /\ sims' = sims
          /\ ~HasChildren(table'[KeyOf(Asked)])
          /\ \A key \in DOMAIN table : table'[key] = table[key]]_vars

\* The inference function raised in the middle of a simulation, below the
\* root, in the second search of an engine whose first search had returned
\* a policy.
C23_Witness ==
  /\ SearchRaised
  /\ path # <<>>
  /\ searches = 2
  /\ \E a \in PitIdx : policy.num[a] > 0

\* ---------------------------------------------------------------------------
\* A game played to its end: the loop of play_game.
\* ---------------------------------------------------------------------------

\* Plies followed from the position a run starts at.
MaxPlayPlies == 18

\* A position of a game played from initial() by 114 legal moves: four stones
\* are left on the board, no tuzdyk exists, the kazans hold 78 and 80.
CyclePos1 == Replay(initial, <<4, 4, 6, 8, 0, 7, 2, 6>>)
CyclePos2 == Replay(CyclePos1, <<8, 4, 0, 8, 8, 6, 4, 2>>)
CyclePos3 == Replay(CyclePos2, <<6, 8, 8, 7, 5, 8, 7, 8>>)
CyclePos4 == Replay(CyclePos3, <<8, 3, 8, 6, 5, 2, 3, 8>>)
CyclePos5 == Replay(CyclePos4, <<3, 7, 6, 3, 8, 2, 5, 7>>)
CyclePos6 == Replay(CyclePos5, <<7, 4, 8, 8, 1, 4, 4, 3>>)
CyclePos7 == Replay(CyclePos6, <<0, 5, 4, 5, 6, 8, 1, 7>>)
CyclePos8 == Replay(CyclePos7, <<8, 8, 2, 4, 8, 6, 2, 8>>)
CyclePos9 == Replay(CyclePos8, <<5, 5, 3, 7, 5, 8, 7, 0>>)
CyclePos10 == Replay(CyclePos9, <<4, 8, 4, 6, 6, 1, 8, 6>>)
CyclePos11 == Replay(CyclePos10, <<6, 1, 8, 2, 7, 3, 8, 4>>)
CyclePos12 == Replay(CyclePos11, <<3, 0, 4, 7, 5, 8, 6, 2>>)
CyclePos13 == Replay(CyclePos12, <<5, 1, 7, 0, 6, 5, 7, 6>>)
CyclePos14 == Replay(CyclePos13, <<7, 2, 8, 7, 8, 8, 0, 3>>)
CyclePosition == Replay(CyclePos14, <<1, 4>>)

PlayRoots == {CyclePosition}

InitPlay ==
  /\ root \in PlayRoots
  /\ state = root
  /\ prev = root
  /\ act = 0
  /\ res = "init"
  /\ HeapIdle
  /\ FenIdle
  /\ SearchIdle

\* One round of the while loop: the game is not over, the engine's policy
\* picks a legal move (any of them, depending on the evaluator), the move is
\* applied.  Nothing in the loop counts moves or remembers positions.
PlayMove(action) ==
  /\ ~is_terminal(state)
  /\ action \in legal_moves(state)
  /\ MoveOk(action, MaxPlayPlies)

\* The loop condition fails: play_game reads the outcome and returns.
PlayOver ==
  /\ is_terminal(state)
  /\ res # "over"
  /\ prev' = state
  /\ res' = "over"
  /\ UNCHANGED <<state, act, root, otherVars>>

NextPlay ==
  \/ \E action \in PitIdx : PlayMove(action)
  \/ PlayOver

SpecPlay == InitPlay /\ [][NextPlay]_vars

\* C24: every line of legal moves ends: no position recurs along a line of
\* play (the position is what state_key records: pits, kazans, tuzdyks and
\* the player to move), so a simulation's loop and a game's loop end.
\* Stated for the position a line starts at: it never comes back.
C24_NoRecurrence ==
  (state.move_number > root.move_number) => (state_key(state) # state_key(root))

\* ---------------------------------------------------------------------------
\* search as a function: what one call computes from the table it finds.
\* ---------------------------------------------------------------------------

\* The while loop of _simulate from state s with the path p so far: the
\* table, the states handed to inference_fn, the path and the state the loop
\* ends with, and whether inference_fn raised.  tb = tb and the like (always
\* true) make TLC evaluate the table, the states, the state and the path at
\* every round.
RECURSIVE SelectionLoop(_, _, _, _, _)
SelectionLoop(tb, ev, kind, s, p) ==
  LET e == _ensure_expanded(tb, ev, kind, s)
      node == e.table[KeyOf(s)]
      action == _select_child(node)
      ns == apply_move(s, action).state
  IN IF tb = tb /\ ev = ev /\ s = s /\ p = p /\ e.raised
       THEN [table |-> e.table, evals |-> e.evals, path |-> p, state |-> s, raised |-> TRUE]
     ELSE IF ~HasChildren(node)
       THEN [table |-> e.table, evals |-> e.evals, path |-> p, state |-> s, raised |-> FALSE]
     ELSE IF is_terminal(ns)
       THEN [table |-> _get_or_create_node(e.table, ns), evals |-> e.evals,
             path |-> Append(p, <<KeyOf(s), action>>), state |-> ns, raised |-> FALSE]
     ELSE SelectionLoop(_get_or_create_node(e.table, ns), e.evals, kind, ns,
                        Append(p, <<KeyOf(s), action>>))

\* self._simulate(root_state): the table and the states handed to
\* inference_fn afterwards, and whether inference_fn raised.
_simulate(tb, ev, kind, root_state) ==
  LET l == SelectionLoop(_get_or_create_node(tb, root_state), ev, kind, root_state, <<>>)
      v == _evaluate(l.table, l.evals, kind, l.state)
  IN IF l.raised THEN [table |-> l.table, evals |-> l.evals, raised |-> TRUE]
     ELSE IF v.raised THEN [table |-> v.table, evals |-> v.evals, raised |-> TRUE]
     ELSE [table |-> Backup(v.table, l.path, v.value), evals |-> v.evals, raised |-> FALSE]

\* for _ in range(self.num_simulations): self._simulate(root_state), with n
\* rounds still to run.
RECURSIVE SimulationLoop(_, _, _, _, _)
SimulationLoop(tb, ev, kind, root_state, n) ==
  IF tb = tb /\ ev = ev /\ n = 0 THEN [table |-> tb, evals |-> ev, raised |-> FALSE]
  ELSE LET r == _simulate(tb, ev, kind, root_state)
       IN IF r.raised THEN r
          ELSE SimulationLoop(r.table, r.evals, kind, root_state, n - 1)

\* self.search(root_state) of an engine whose table is tb, when the noise
\* drawn has its heavy entry at position heavy: the policy returned and the
\* table left, or raised.
search(tb, kind, root_state, heavy) ==
  LET e == _ensure_expanded(_get_or_create_node(tb, root_state), {}, kind, root_state)
      r == SimulationLoop(_add_root_dirichlet(e.table, KeyOf(root_state), heavy), e.evals,
                          kind, root_state, NumSims)
  IN IF e.raised THEN [raised |-> TRUE, table |-> e.table, policy |-> <<>>]
     ELSE IF r.raised THEN [raised |-> TRUE, table |-> r.table, policy |-> <<>>]
     ELSE [raised |-> FALSE, table |-> r.table,
           policy |-> SearchResult(r.table[KeyOf(root_state)], root_state)]

\* Two returned lists hold the same nine numbers.
SamePolicy(p, q) == \A a \in PitIdx : p.num[a] * q.den = q.num[a] * p.den

\* C25: search determinism.  The policy a search call returns is a function
\* of the root state, the evaluator, the configuration and the noise drawn
\* for the call; so what an engine returns for a root is what a newly built
\* engine with the same evaluator and configuration returns for that root
\* under one of the noise samples.
C25_Deterministic ==
  SearchReturned =>
    \E heavy \in NoiseChoices(Cardinality(legal_moves(state))) :
      LET fresh == search(<<>>, ekind, state, heavy)
      IN ~fresh.raised /\ SamePolicy(policy, fresh.policy)

\* The same for the first call of an engine only.
C25_FirstCall == (searches = 1) => C25_Deterministic

\* The cells of the board where the successor holds fewer stones than the
\* board right after the sowing, and fewer than the predecessor.
RemovedAfterSow == {c \in RingCells : PitAt(state.pits, c) < PitAt(AfterSow.pits, c)}
RemovedByMove == {c \in RingCells : PitAt(state.pits, c) < PitAt(prev.pits, c)}
\* The final stone of the latest move was credited to a tuzdyk.
FinalInTuzdyk == IsTuzCell(prev, RingAt(SownK))

C26_WitnessOwnRow ==
  /\ res = "ok"
  /\ HasLast
  /\ CellSide(LastCell) = Mover
  /\ SownK > NumPits
  /\ PitAt(AfterSow.pits, LastCell) % 2 = 0

\* C27: when the last stone sown by a move lands in a tuzdyk (it is credited
\* to the kazan of the tuzdyk's owner) nothing else happens in the move: no
\* cell is captured, no tuzdyk is created, and the kazans change by the
\* one-stone tuzdyk credits only.
C27_TuzdykEndsMove ==
  (res = "ok" /\ FinalInTuzdyk) =>
    /\ state.pits = AfterSow.pits
    /\ state.tuzdyk_indices = prev.tuzdyk_indices
    /\ \A o \in Players :
         state.kazans[o] = prev.kazans[o]
                             + (IF HasTuzdyk(prev, o) THEN Drops(TuzCell(prev, o)) ELSE 0)

\* C28: the origin of a move is never a tuzdyk.  In every state reached by
\* play the pit at each owned tuzdyk cell holds 0 stones, so no legal move
\* starts from a tuzdyk cell, and the stone a move returns to its origin is
\* never dropped on a tuzdyk.
C28_TuzdykCellEmpty ==
  /\ \A o \in Players : HasTuzdyk(state, o) => PitAt(state.pits, TuzCell(state, o)) = 0
  /\ \A i \in legal_moves(state) : ~IsTuzCell(state, Cell(state.player_to_move, i))
  /\ res = "ok" => (~IsTuzCell(prev, Origin) /\ ~IsTuzCell(state, Origin))

\* A move of several stones from the row that carries the opponent's
\* tuzdyk: a lap of the board dropped a stone on the tuzdyk and one back
\* on the origin, and the tuzdyk cell is still empty.
C28_Witness ==
  /\ res = "ok"
  /\ HasTuzdyk(prev, Opp)
  /\ CellSide(TuzCell(prev, Opp)) = Mover
  /\ HandN > 1
  /\ Drops(TuzCell(prev, Opp)) >= 1
  /\ PitAt(state.pits, TuzCell(prev, Opp)) = 0
  /\ state.pits[Mover][act] >= 1

\* The nodes of the table that have children, and the simulations entered
\* so far by the current search call.
ExpandedKeys == {key \in DOMAIN table : HasChildren(table[key])}
SimsEntered == sims + (IF pc \in {"select", "leaf"} THEN 1 ELSE 0)

\* C29: a simulation descends only through nodes that are already expanded
\* and stops at the first unexpanded node or terminal state: it expands at
\* most one node and hands at most one new state to the evaluator.  So an
\* engine's first search call, which expands the root and then runs its
\* simulations, has expanded at most one node more than it has entered
\* simulations, and the evaluator has seen at most as many states.
C29_OneExpansion ==
  (searches = 1) =>
    /\ Cardinality(ExpandedKeys) <= 1 + SimsEntered
    /\ Cardinality(evals) <= 1 + SimsEntered

\* The steps of the recorded path, counted from the leaf end (step 0 is the
\* last child selected), at which action a of the node under key was taken.
StepsAt(key, a) == {k \in 0 .. Len(path) - 1 : path[Len(path) - k] = <<key, a>>}
\* A simulation's leaf has just been evaluated and its value backed up.
BackedUp == pc = "leaf" /\ pc' = "simulate"

\* C30: backup.  After the leaf is evaluated to v the recorded path is
\* walked from the leaf end to the root end; the child selected at step k
\* gets exactly one more visit and (-1)^k * v more in its accumulator, and
\* nothing else changes: not a child off the path, not a prior, not a
\* node's own fields, not the set of nodes or of children.
C30_Backup ==
  [][BackedUp =>
       LET before == _evaluate(table, evals, ekind, cur).table
           v == leaf'.value
       IN /\ DOMAIN table' = DOMAIN before
          /\ \A key \in DOMAIN before :
               /\ table'[key].state = before[key].state
               /\ table'[key].prior = before[key].prior
               /\ table'[key].visit_count = before[key].visit_count
               /\ table'[key].value_sum = before[key].value_sum
               /\ DOMAIN table'[key].children = DOMAIN before[key].children
               /\ \A a \in DOMAIN before[key].children :
                    LET old == before[key].children[a]
                        new == table'[key].children[a]
                        even == {k \in StepsAt(key, a) : k % 2 = 0}
                        odd == {k \in StepsAt(key, a) : k % 2 = 1}
                    IN /\ new.prior = old.prior
                       /\ new.visit_count = old.visit_count + Cardinality(even) + Cardinality(odd)
                       /\ new.value_sum = old.value_sum
                                            + v * Cardinality(even) - v * Cardinality(odd)]_vars

\* The first simulation of an engine ended a won game three or more plies
\* below the root: the last child selected holds the leaf's value, the one
\* before it the negated value, the one before that the value again.
C30_Witness ==
  /\ pc = "simulate"
  /\ searches = 1
  /\ sims = 1
  /\ Len(path) >= 3
  /\ leaf.value # 0
  /\ \A k \in 0 .. 2 :
       LET step == path[Len(path) - k]
           child == table[step[1]].children[step[2]]
       IN /\ child.visit_count = 1
          /\ child.value_sum = (IF k % 2 = 0 THEN leaf.value ELSE 0 - leaf.value)

\* The first simulation of an engine's first search call has ended a decided
\* game and its value has been backed up.
FirstSimDecided ==
  /\ pc = "simulate"
  /\ searches = 1
  /\ sims = 1
  /\ leaf.set
  /\ path # <<>>
  /\ is_terminal(leaf.state)
  /\ outcome(leaf.state) # None
\* The player who chose the action of the path's step k, counted from the
\* leaf end: the players alternate, and the last action led to the leaf.
ChooserAt(k) ==
  IF k % 2 = 0 THEN opponent_of(leaf.state.player_to_move) ELSE leaf.state.player_to_move

\* C31: perspective of backed-up values.  What a simulation adds to the
\* accumulator of the child chosen at a node is seen from the player who
\* chose it: +1 when the simulation ended in a win for that player, -1 when
\* it ended in a loss.  Stated for the first simulation of an engine, where
\* a child visited once holds exactly what that simulation added.
C31_Perspective ==
  FirstSimDecided =>
    \A k \in 0 .. Len(path) - 1 :
      LET step == path[Len(path) - k]
          child == table[step[1]].children[step[2]]
      IN child.visit_count = 1 =>
           child.value_sum = (IF outcome(leaf.state) = ChooserAt(k)
                                THEN ValueDen ELSE 0 - ValueDen)

\* A round of the selection loop has selected a child and stepped to it.
Selected == pc = "select" /\ Len(path') = Len(path) + 1
\* All children of a node have one prior and no visits.
FreshEqual(ch) ==
  \A a, b \in DOMAIN ch :
    /\ ch[a].visit_count = 0
    /\ ch[a].prior.num * ch[b].prior.den = ch[b].prior.num * ch[a].prior.den

\* C32: selection picks a child whose PUCT score no other child exceeds,
\* and among children of equal best score the one with the lowest action
\* index; at a node whose children all have the same prior and no visits it
\* picks the lowest legal action.  The simulation goes on from the state the
\* selected action leads to.
C32_Selection ==
  [][Selected =>
       LET ch == table'[KeyOf(cur)].children
           action == path'[Len(path')][2]
           total_visits == 1 + SumVisits(ch, DOMAIN ch)
       IN /\ path'[Len(path')][1] = KeyOf(cur)
          /\ action \in DOMAIN ch
          /\ DOMAIN ch = legal_moves(cur)
          /\ \A b \in DOMAIN ch : ~ScoreGreater(ch[b], ch[action], total_visits)
          /\ \A b \in DOMAIN ch : b < action => ScoreGreater(ch[action], ch[b], total_visits)
          /\ FreshEqual(ch) => \A b \in legal_moves(cur) : action <= b
          /\ cur' = apply_move(cur, action).state]_vars

\* A simulation stands below a node it has just expanded with equal priors
\* for several legal actions, of which it took the lowest, not action 0;
\* and, with another evaluator, below a node where it took an action that is
\* not the lowest because its score was higher.
C32_Witness ==
  /\ pc \in {"select", "leaf"}
  /\ Len(path) >= 2
  /\ LET step == path[Len(path)]
         ch == table[step[1]].children
     IN /\ Cardinality(DOMAIN ch) >= 2
        /\ FreshEqual(ch)
        /\ step[2] > 0
        /\ \A b \in DOMAIN ch : step[2] <= b

C32_WitnessHigher ==
  /\ pc \in {"select", "leaf"}
  /\ path # <<>>
  /\ LET step == path[Len(path)]
         ch == table[step[1]].children
     IN \E b \in DOMAIN ch :
          b < step[2] /\ ScoreGreater(ch[step[2]], ch[b], 1 + SumVisits(ch, DOMAIN ch))

\* C33: transposition sharing.  The table holds one node per canonical
\* fingerprint: a node enters it under the fingerprint of its state, and a
\* node once made stays the node of its fingerprint, with the
\* state it was made for and the children it was given; and a simulation
\* that steps to a state whose canonical fingerprint is in the table already
\* takes the node found there as it is, with the visit counts and
\* accumulators recorded by whatever line reached the position before.
C33_Sharing ==
  [][/\ DOMAIN table \subseteq DOMAIN table'
     /\ \A key \in DOMAIN table' :
          IF key \notin DOMAIN table
            THEN key = KeyOf(table'[key].state)
          ELSE table'[key] # table[key] =>
                 /\ table'[key].state = table[key].state
                 /\ HasChildren(table[key]) =>
                      DOMAIN table'[key].children = DOMAIN table[key].children
     /\ (Selected /\ KeyOf(cur') \in DOMAIN table /\ KeyOf(cur') # KeyOf(cur)) =>
          table'[KeyOf(cur')] = table[KeyOf(cur')]]_vars

\* A simulation stands at a state that is not the state its node was made
\* for (another line, or the mirror image, reached the position first), and
\* finds there children that were visited before.
C33_Witness ==
  /\ pc = "select"
  /\ path # <<>>
  /\ KeyOf(cur) \in DOMAIN table
  /\ table[KeyOf(cur)].state # cur
  /\ HasChildren(table[KeyOf(cur)])
  /\ SumVisits(table[KeyOf(cur)].children, DOMAIN table[KeyOf(cur)].children) > 0

\* A step in which search has expanded the root and mixed the noise.
Mixing == pc = "new" /\ pc' = "simulate"

\* C34: root noise step.  Every call of search first expands the root when
\* it has no children and then, before the first simulation, replaces the
\* prior of every child the root then has by 3/4 of it plus 1/4 of that
\* child's entry of one noise vector; the step changes no visit count and no
\* accumulator, nothing of any other node, and nothing at all when the root
\* has no children; no later step of the call changes a prior.
C34_RootNoise ==
  [][/\ Mixing =>
          LET key == KeyOf(state)
              old == IF key \in DOMAIN table THEN table[key].children ELSE <<>>
              new == table'[key].children
              k == Cardinality(DOMAIN new)
              fresh == inference_fn(ekind, canonicalize(state)).policy
              Pos(a) == Cardinality({b \in DOMAIN new : b < a})
          IN /\ sims' = 0
             /\ DOMAIN table' = DOMAIN table \cup {key}
             /\ \A other \in DOMAIN table \ {key} : table'[other] = table[other]
             /\ DOMAIN new = (IF DOMAIN old # {} THEN DOMAIN old
                              ELSE IF is_terminal(state) THEN {} ELSE legal_moves(state))
             /\ \A a \in DOMAIN new :
                  /\ new[a].visit_count = (IF a \in DOMAIN old THEN old[a].visit_count ELSE 0)
                  /\ new[a].value_sum = (IF a \in DOMAIN old THEN old[a].value_sum ELSE 0)
             /\ k > 0 =>
                  \E heavy \in 0 .. k - 1 :
                    \A a \in DOMAIN new :
                      LET base == IF a \in DOMAIN old THEN old[a].prior
                                  ELSE [num |-> fresh[a], den |-> PolicyDen]
                          eps == NoiseAt(k, heavy, Pos(a))
                      IN new[a].prior.num * (4 * base.den * NoiseDen)
                           = (3 * base.num * NoiseDen + eps * base.den) * new[a].prior.den
             /\ k = 0 => table' = _get_or_create_node(table, state)
     /\ pc # "new" =>
          \A key \in DOMAIN table :
            table'[key] # table[key] =>
              \A a \in DOMAIN table[key].children :
                table'[key].children[a].prior = table[key].children[a].prior]_vars
\* The noise was just mixed into a root that already had visited children,
\* in a table that holds other expanded nodes.
C34_Witness ==
  /\ pc = "simulate" /\ sims = 0 /\ searches = 2 /\ entry.visits > 0
  /\ HasChildren(table[KeyOf(state)])
  /\ \E other \in DOMAIN table \ {KeyOf(state)} : HasChildren(table[other])
\* search was just entered with a finished game: the root has no children.
C34_WitnessNoChildren ==
  /\ pc = "simulate" /\ sims = 0 /\ is_terminal(state)
  /\ ~HasChildren(table[KeyOf(state)])

\* C35: simulation accounting.  When a search call on a root that is not
\* terminal returns, the visit counts of the root's children sum to
\* num_simulations.
C35_Accounting ==
  (SearchReturned /\ ~is_terminal(state)) => RowSum(RootVisits) = NumSims
\* The same for the first call of an engine, whose table was empty.
C35_FirstCall ==
  (SearchReturned /\ ~is_terminal(state) /\ searches = 1) => RowSum(RootVisits) = NumSims

\* The winner with the sides exchanged; None stays None.
SwapSide(w) == IF w = None THEN None ELSE opponent_of(w)

\* C36: the rules are symmetric under the swap of the sides.  For every state
\* s and every action a, mirror_state(s) has the legal moves of s, is
\* terminal exactly when s is, has the outcome of s with the sides exchanged,
\* and apply_move on it fails exactly when it fails on s and otherwise gives
\* the mirror of the successor of s.  The clause for apply_move is stated for
\* the call just made, apply_move(prev, act).
C36_MirrorSymmetry ==
  LET m == mirror_state(state)
  IN /\ legal_moves(m) = legal_moves(state)
     /\ is_terminal(m) = is_terminal(state)
     /\ outcome(m) = SwapSide(outcome(state))
     /\ res # "init" =>
          LET rm == apply_move(mirror_state(prev), act)
          IN /\ rm.status = res
             /\ res = "ok" => rm.state = mirror_state(state)
\* A move that made a tuzdyk and captured was just played.
C36_Witness ==
  /\ res = "ok"
  /\ prev.tuzdyk_indices # state.tuzdyk_indices
  /\ state.kazans # prev.kazans
  /\ apply_move(mirror_state(prev), act).state = mirror_state(state)
  /\ mirror_state(state) # state
\* A finished game with a winner: its mirror is won by the other side.
C36_WitnessOutcome ==
  /\ is_terminal(state) /\ outcome(state) # None
  /\ outcome(mirror_state(state)) = opponent_of(outcome(state))

\* C37: tuzdyks are permanent.  A tuzdyk index that is set keeps its value
\* through every further move, and a move changes at most the entry of the
\* player who made it.
C37_TuzdykPermanent ==
  /\ \A p \in Players :
       /\ prev.tuzdyk_indices[p] # None => state.tuzdyk_indices[p] = prev.tuzdyk_indices[p]
       /\ root.tuzdyk_indices[p] # None => state.tuzdyk_indices[p] = root.tuzdyk_indices[p]
  /\ state.tuzdyk_indices[opponent_of(prev.player_to_move)]
       = prev.tuzdyk_indices[opponent_of(prev.player_to_move)]
\* One player had a tuzdyk from the start, the other made one since, and a
\* further move that captured has been played: both are as they were.
C37_Witness ==
  /\ res = "ok"
  /\ state.move_number - root.move_number >= 2
  /\ \E p \in Players :
       /\ root.tuzdyk_indices[p] # None
       /\ root.tuzdyk_indices[opponent_of(p)] = None
       /\ prev.tuzdyk_indices[opponent_of(p)] # None
  /\ state.tuzdyk_indices = prev.tuzdyk_indices
  /\ state.kazans # prev.kazans

====
